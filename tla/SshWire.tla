-------------------------------- MODULE SshWire --------------------------------
(***************************************************************************)
(* The encoding of SSH public keys (src/ssh-parser.vala).                   *)
(*                                                                          *)
(* A public key file is a line: the key type, the key data in base64, a     *)
(* comment.  The data repeats the type and goes on with the fields of the   *)
(* key, each with its length in front.  Base64 is the identity here, and    *)
(* bytes are numbers; the strings of the program end at their first zero.   *)
(***************************************************************************)
EXTENDS Integers, SequencesExt

CONSTANTS
  Magics,    \* the key types that are registered, as byte strings
  FieldsOf,  \* of a type: what is read of each field: "mpi", "string", "curve"
  CurveOf    \* of a type: the name of its curve

Byte == 0..255

ASSUME WireAssumption == /\ FieldsOf \in [Magics -> Seq({"mpi", "string", "curve"})]
                         /\ Magics \subseteq Seq(Byte) \ {<< >>}

---------------------------------------------------------------------------
(* Strings and lengths.                                                     *)

HasZero(s) == \E n \in DOMAIN s : s[n] = 0

\* bytes_to_string, as everything that measures a string sees it.
CString(s) == IF HasZero(s) THEN SubSeq(s, 1, SelectInSeq(s, LAMBDA b : b = 0) - 1) ELSE s

\* write_length: (uint8) binds before the mask, and three of the bytes are always 0.
WriteLength(n) == <<0, 0, 0, n % 256>>

WriteString(s) == WriteLength(Len(CString(s))) \o CString(s)

\* gcrypt writes an MPI as it was read (those of keys have no superfluous zeros in front);
\* its length is right.
BigEndian(n) == <<n \div 16777216, (n \div 65536) % 256, (n \div 256) % 256, n % 256>>
WriteMpi(s) == BigEndian(Len(s)) \o s

---------------------------------------------------------------------------
(* Reading: what has been read so far, and where to go on.                  *)

Failed == [ok |-> FALSE, offset |-> 0, fields |-> << >>]

LengthAt(data, n) == ((data[n + 1] * 256 + data[n + 2]) * 256 + data[n + 3]) * 256 + data[n + 4]

\* read_length and a slice of that length; scanning an MPI fails in the same cases.
HasSlice(data, n) ==
  /\ Len(data) - n >= 4
  /\ Len(data) - (n + 4) >= LengthAt(data, n)

Slice(data, n) == SubSeq(data, n + 5, n + 4 + LengthAt(data, n))

\* read_string, read_mpi
ReadField(data, magic, r, kind) ==
  IF ~r.ok \/ ~HasSlice(data, r.offset) THEN Failed
  ELSE LET s == Slice(data, r.offset)
           value == IF kind = "mpi" THEN s ELSE CString(s)
       IN IF kind = "curve" /\ value # CurveOf[magic] THEN Failed
          ELSE [ok |-> TRUE, offset |-> r.offset + 4 + Len(s), fields |-> Append(r.fields, value)]

\* The parsers of the blobs read one field after the other: the type again, and their own.
Nothing == [ok |-> TRUE, offset |-> 0, fields |-> << >>]
ReadFields(data, magic, kinds) ==
  LET r[n \in 0..Len(kinds)] ==
        IF n = 0 THEN Nothing ELSE ReadField(data, magic, r[n - 1], kinds[n])
  IN r[Len(kinds)]

Kinds(magic) == <<"string">> \o FieldsOf[magic]
ReadBlob(data, magic) == ReadFields(data, magic, Kinds(magic))

---------------------------------------------------------------------------
(* Keys.                                                                    *)

\* A line of a file: a type, data, a comment; or one without the two spaces.
NoLine == [magic |-> << >>, data |-> << >>, comment |-> "none"]

\* SshKeyParser.parse: whether it succeeds, and the key.
Parses(line) ==
  /\ line.magic \in Magics
  /\ LET r == ReadBlob(line.data, line.magic) IN r.ok /\ r.fields[1] = line.magic

Parse(line) == [magic |-> line.magic, fields |-> Tail(ReadBlob(line.data, line.magic).fields),
                comment |-> line.comment]

Slip_AllStrings(kind, s) == WriteString(s)
WriteField(kind, s) == IF kind = "mpi" THEN WriteMpi(s) ELSE WriteString(s)

\* SshKey.to_bytes, with the to_bytes of the blobs.
ToData(key) ==
  LET d[n \in 0..Len(key.fields)] ==
        IF n = 0 THEN WriteString(key.magic)
        ELSE d[n - 1] \o WriteField(FieldsOf[key.magic][n], key.fields[n])
  IN d[Len(key.fields)]
ToLine(key) == [magic |-> key.magic, data |-> ToData(key), comment |-> key.comment]

---------------------------------------------------------------------------
(* For the properties: data that the program can write back.  A string in   *)
(* it has no zero byte and a length of one byte, and nothing comes after    *)
(* the last field.  Read as an MPI, a field keeps every byte.               *)

Plain(line) ==
  LET kinds == Kinds(line.magic)
      r == ReadFields(line.data, line.magic, [n \in DOMAIN kinds |-> "mpi"])
  IN /\ r.ok /\ r.offset = Len(line.data)
     /\ \A n \in DOMAIN kinds :
          kinds[n] # "mpi" => ~HasZero(r.fields[n]) /\ Len(r.fields[n]) < 256
=============================================================================
