---------------------------- MODULE MCSshCollection ----------------------------
(***************************************************************************)
(* SshCollection with one key file, types and keys of every kind in small.  *)
(***************************************************************************)
EXTENDS SshCollection

CONSTANTS p1

\* Type names and curves are one or two bytes.
Rsa == <<1>>
Ecdsa == <<2, 5>>
Ed25519 == <<3>>

MCMagics == {Rsa, Ecdsa, Ed25519}
MCFieldsOf == (Rsa :> <<"mpi", "mpi">>) @@ (Ecdsa :> <<"curve", "string">>) @@ (Ed25519 :> <<"string">>)
MCCurveOf == [m \in MCMagics |-> <<5>>]

KeyLine(m, parts) ==
  [magic |-> m, data |-> FoldLeft(LAMBDA d, s : d \o WriteMpi(s), WriteMpi(m), parts),
   comment |-> "old"]

MCPaths == {p1}
MCComments == {"new"}
MCLines == {NoLine, KeyLine(Ed25519, <<<<7, 0, 9>>>>)}

\* Keys of every type, and one each with a zero byte, with a byte behind it, with another
\* curve, with another type inside, and with a length past its end.
MCInitialLines == {
  KeyLine(Rsa, <<<<3>>, <<0, 200>>>>), KeyLine(Ecdsa, <<<<5>>, <<4, 1>>>>),
  KeyLine(Ed25519, <<<<7>>>>), KeyLine(Ed25519, <<<<7, 0, 9>>>>),
  [KeyLine(Ed25519, <<<<7>>>>) EXCEPT !.data = Append(@, 7)],
  KeyLine(Ecdsa, <<<<6>>, <<4, 1>>>>), [KeyLine(Ed25519, <<<<7>>>>) EXCEPT !.magic = Rsa],
  [KeyLine(Ed25519, <<<<7>>>>) EXCEPT !.data[9] = 2] }
MCMaxItems == 2
MCMaxWrites == 2
MCMaxOutside == 2
=============================================================================
