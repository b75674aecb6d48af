------------------------------ MODULE GpgObjects ------------------------------
(***************************************************************************)
(* Lifetimes of the GObject wrappers of gpgme-glib/gpgme-glib.c, and of the *)
(* structures of gpgme they point into.                                     *)
(*                                                                          *)
(* A GGpgKey owns a reference to a gpgme key, a result wrapper one to a     *)
(* gpgme result and a GGpgData its buffer; the wrappers of subkeys, user    *)
(* ids, signatures and recipients point into the structure of the wrapper   *)
(* they were got from and keep that one alive.  An operation keeps its      *)
(* arguments until its source is finalized, a context its signers and the   *)
(* results of its last operation.  Client and operation take turns in the   *)
(* main loop: the client may let go of anything while an operation runs.    *)
(*                                                                          *)
(* The order in which references are taken and dropped at one time makes no *)
(* difference: where the code has a list of them, the model has a bag.      *)
(***************************************************************************)
EXTENDS Integers, FiniteSets, FiniteSetsExt, Bags

CONSTANTS
  MaxObjects,   \* bound: wrappers alive at a time
  MaxNatives,   \* bound: gpgme structures alive at a time
  MaxInputs,    \* bound: keys and buffers among them
  MaxExtras     \* bound: signers of the context and operations that cannot be started

ASSUME ObjectsAssumption ==
  {MaxObjects, MaxNatives, MaxInputs, MaxExtras} \subseteq Nat

\* A "listing" is a result of decrypt, sign or encrypt, with lists nothing is got from.
Owning == {"key", "data", "import", "listing", "verify"}  \* classes that own what they point to
Nothing == <<"nothing", 0>>

\* An address is a class or kind and a number: <<"key", 1>> is the first free wrapper of a
\* key, or the first free key of gpgme.
Class(a) == a[1]

VARIABLES
  heap,    \* obj: the wrappers; native: references to gpgme's structures; both by address
  mine,    \* wrappers the client holds a reference to
  strays,  \* wrappers with a reference that nobody holds
  ctx,     \* the one GGpgCtx and its gpgme context
  op,      \* the operation of the context
  kept     \* what the sources of operations that did not start still hold

objectsVars == <<heap, mine, strays, ctx, op, kept>>

NoOperation == [phase |-> "idle", args |-> EmptyBag, keys |-> EmptyBag, uses |-> {}, gives |-> {}]

ObjectsInit ==
  /\ heap = [obj |-> << >>, native |-> << >>]
  /\ mine = {} /\ strays = {}
  /\ ctx = [refs |-> 1, mine |-> TRUE, signers |-> EmptyBag, gpgme |-> EmptyBag, results |-> {}]
  /\ op = NoOperation
  /\ kept = [args |-> EmptyBag, keys |-> EmptyBag, ctx |-> 0]

---------------------------------------------------------------------------
(* References: functions of a heap and a bag of addresses.                  *)

Copies(b, x) == IF x \in DOMAIN b THEN b[x] ELSE 0
Single(x) == SetToBag({x})

NextFree(f, class) ==
  <<class, Min({i \in 1..(Cardinality(DOMAIN f) + 1) : <<class, i>> \notin DOMAIN f})>>
NewObject(class) == NextFree(heap.obj, class)
NewNative(kind) == NextFree(heap.native, kind)
Room == Cardinality(DOMAIN heap.obj) < MaxObjects
NativeRoom ==
  /\ Cardinality(DOMAIN heap.native) < MaxNatives
  /\ Cardinality({n \in DOMAIN heap.native : Class(n) \in {"key", "data"}}) < MaxInputs

\* What the wrappers of a set point to.
Natives(h, S) ==
  [n \in {h.obj[x].at : x \in S} |-> Cardinality({x \in S : h.obj[x].at = n})]

RefNatives(h, b) == [h EXCEPT !.native = [n \in DOMAIN h.native |-> h.native[n] + Copies(b, n)]]
UnrefNatives(h, b) ==
  LET left == {n \in DOMAIN h.native : h.native[n] > Copies(b, n)}
  IN [h EXCEPT !.native = [n \in left |-> h.native[n] - Copies(b, n)]]
AddNatives(h, S) ==
  [h EXCEPT !.native = [n \in DOMAIN h.native \cup S |-> IF n \in S THEN 1 ELSE h.native[n]]]

RefEach(h, b) ==
  [h EXCEPT !.obj = [x \in DOMAIN h.obj |-> [h.obj[x] EXCEPT !.refs = @ + Copies(b, x)]]]

\* g_object_new: the wrapper takes a reference to its owner (g_value_dup_object).
Put(h, x, w) ==
  [h EXCEPT !.obj = [y \in DOMAIN h.obj \cup {x} |-> IF y = x THEN w ELSE h.obj[y]]]
Wrap(h, x, at, owner) ==
  Put(RefEach(h, Single(owner)), x, [at |-> at, owner |-> owner, refs |-> 1])

\* g_object_unref of wrappers, with the finalize of those that go.
UnrefEach(h, b) ==
  LET gone == {x \in DOMAIN h.obj : h.obj[x].refs <= Copies(b, x)}
      left == [x \in DOMAIN h.obj \ gone |-> [h.obj[x] EXCEPT !.refs = @ - Copies(b, x)]]
  IN UnrefNatives([h EXCEPT !.obj = left], Natives(h, {x \in gone : Class(x) \in Owning}))

\* With its dispose: a wrapper that goes lets go of its owner in turn.  A chain of owners
\* has at most three wrappers.
LetGo(s) ==
  IF s.drop = Nothing THEN s
  ELSE [heap |-> UnrefEach(s.heap, Single(s.drop)),
        drop |-> IF s.heap.obj[s.drop].refs = 1 THEN s.heap.obj[s.drop].owner ELSE Nothing]
Unref(h, x) == LetGo(LetGo(LetGo([heap |-> h, drop |-> x]))).heap

\* The next operation of the context, and its end, release the results of the last one.
ReleaseResults(h) == UnrefNatives(h, SetToBag(ctx.results))

\* g_object_unref of the context n times, and g_gpg_ctx_finalize.
FinalizeCtx(h, c) == UnrefEach(UnrefNatives(h, SetToBag(c.results) (+) c.gpgme), c.signers)
UnrefCtx(h, c, n) ==
  IF c.refs > n
  THEN heap' = h /\ ctx' = [c EXCEPT !.refs = @ - n]
  ELSE /\ heap' = FinalizeCtx(h, c)
       /\ ctx' = [c EXCEPT !.refs = 0, !.signers = EmptyBag, !.gpgme = EmptyBag, !.results = {}]

---------------------------------------------------------------------------
(* The client makes wrappers, gets others from them, and lets go.           *)

HasCtx == ctx.mine
Extras == BagCardinality(ctx.gpgme) + kept.ctx
Mine(class) == {x \in mine : Class(x) = class}

NewData ==
  /\ Room /\ NativeRoom
  /\ LET x == NewObject("data")
         n == NewNative("data")
     IN /\ heap' = Wrap(AddNatives(heap, {n}), x, n, Nothing)
        /\ mine' = mine \cup {x}
  /\ UNCHANGED <<strays, ctx, op, kept>>

\* The buffer goes and the wrapper stays: the caller's reference is taken and not dropped.
FreeToBytes(x) ==
  /\ x \in Mine("data")
  /\ heap.obj[x].at # Nothing /\ heap.obj[x].at \notin op.uses
  /\ heap' = [UnrefNatives(heap, Single(heap.obj[x].at)) EXCEPT !.obj[x].at = Nothing]
  /\ mine' = mine \ {x}
  /\ strays' = strays \cup {x}
  /\ UNCHANGED <<ctx, op, kept>>

\* One element of a list: a wrapper of the given class for an element of the structure that
\* x, of class from, points into.  Nothing is got from a "leaf" in turn.
Get(x, class, from, owner) ==
  /\ Room
  /\ x \in Mine(from)
  /\ heap' = Wrap(heap, NewObject(class), heap.obj[x].at, owner)
  /\ mine' = mine \cup {NewObject(class)}
  /\ UNCHANGED <<strays, ctx, op, kept>>

GetSubkeys(x) == Get(x, "leaf", "key", x)
GetUids(x) == Get(x, "uid", "key", x)
GetKeySigs(x) == Get(x, "leaf", "uid", x)
GetRecipients(x) == Get(x, "leaf", "listing", x)
GetSignatures(x) == Get(x, "signature", "verify", x)
GetNewSignatures(x) == Get(x, "leaf", "listing", x)
GetInvalidSigners(x) == Get(x, "leaf", "listing", x)
GetInvalidRecipients(x) == Get(x, "leaf", "listing", x)

\* The notations are made as GGpgSubkey, whose owner cannot be a signature: none is set.
GetNotations(x) == Get(x, "notation", "signature", Nothing)

\* g_gpg_ctx_..._result: a wrapper with its own reference to a result of the context.
Slip_BorrowResult(n) == heap
HoldResult(n) == RefNatives(heap, Single(n))
GetResult(n) ==
  /\ HasCtx /\ Room
  /\ n \in ctx.results
  /\ heap' = Wrap(HoldResult(n), NewObject(Class(n)), n, Nothing)
  /\ mine' = mine \cup {NewObject(Class(n))}
  /\ UNCHANGED <<strays, ctx, op, kept>>

Drop(x) ==
  /\ x \in mine
  /\ heap' = Unref(heap, x)
  /\ mine' = mine \ {x}
  /\ UNCHANGED <<strays, ctx, op, kept>>

DropCtx ==
  /\ HasCtx
  /\ UnrefCtx(heap, [ctx EXCEPT !.mine = FALSE], 1)
  /\ UNCHANGED <<mine, strays, op, kept>>

AddSigner(x) ==
  /\ HasCtx /\ Extras < MaxExtras
  /\ x \in Mine("key")
  /\ heap' = RefNatives(RefEach(heap, Single(x)), Single(heap.obj[x].at))
  /\ ctx' = [ctx EXCEPT !.signers = @ (+) Single(x), !.gpgme = @ (+) Single(heap.obj[x].at)]
  /\ UNCHANGED <<mine, strays, op, kept>>

\* gpgme's own list of signers is left as it is.
ClearSigners ==
  /\ HasCtx /\ ctx.signers # EmptyBag
  /\ heap' = UnrefEach(heap, ctx.signers)
  /\ ctx' = [ctx EXCEPT !.signers = EmptyBag]
  /\ UNCHANGED <<mine, strays, op, kept>>

---------------------------------------------------------------------------
(* Operations.  args: what the source references; keys: gpgme keys it       *)
(* references itself; uses: what gpgme works on meanwhile; gives: what the  *)
(* context has at the end.                                                  *)

At(S) == {heap.obj[x].at : x \in S}

\* The task and the source reference the context; gpgme drops its last results.  If gpgme
\* cannot start, the error is returned and the source is never finalized.
Start(args, keys, uses, gives) ==
  /\ HasCtx /\ op.phase = "idle"
  /\ heap' = RefNatives(RefEach(ReleaseResults(heap), args), keys)
  /\ ctx' = [ctx EXCEPT !.refs = @ + 2, !.results = {}]
  /\ \/ /\ op' = [phase |-> "run", args |-> args, keys |-> keys, uses |-> uses, gives |-> gives]
        /\ UNCHANGED kept
     \/ /\ Extras < MaxExtras
        /\ kept' = [args |-> kept.args (+) args, keys |-> kept.keys (+) keys, ctx |-> kept.ctx + 1]
        /\ UNCHANGED op
  /\ UNCHANGED <<mine, strays>>

Slip_BorrowKey(k) == EmptyBag
HoldKey(k) == Single(k)

\* The client passes buffers it has not taken away, and any of its keys.
Buffers == {x \in Mine("data") : heap.obj[x].at # Nothing}
OptionalBuffer == {{}} \cup {{d} : d \in Buffers}
KeyLists == SUBSET Mine("key")

Keylist == Start(EmptyBag, EmptyBag, {}, {"key"})
GenerateKey(P, S) == Start(SetToBag(P) (+) SetToBag(S), EmptyBag, At(P \cup S), {})
Delete(k) == Start(HoldKey(k), EmptyBag, At({k}), {})
ChangePassword(k) == Start(Single(k), EmptyBag, At({k}), {})
Edit(k, out) == Start(SetToBag({k, out}), EmptyBag, At({k, out}), {})
Export(data) == Start(Single(data), EmptyBag, At({data}), {})
ExportKeys(K, D) == Start(SetToBag(K \cup D), EmptyBag, At(K \cup D), {})
Import(data) == Start(Single(data), EmptyBag, At({data}), {"import"})
ImportKeys(K) == Start(SetToBag(K), EmptyBag, At(K), {"import"})

\* One buffer may be passed twice.
Two(d, e) == Single(d) (+) Single(e)
Decrypt(cipher, plain) == Start(Two(cipher, plain), EmptyBag, At({cipher, plain}), {"listing"})
DecryptVerify(cipher, plain) ==
  Start(Two(cipher, plain), EmptyBag, At({cipher, plain}), {"listing", "verify"})
Verify(sig, text, plain) ==
  Start(Two(sig, text) (+) Single(plain), EmptyBag, At({sig, text, plain}), {"verify"})
Sign(plain, sig) ==
  Start(Two(plain, sig), EmptyBag, At({plain, sig}) \cup DOMAIN ctx.gpgme, {"listing"})

\* The recipients are gpgme keys that the source references, not their wrappers.
Encrypt(K, plain, cipher) ==
  Start(Two(plain, cipher), Natives(heap, K), At({plain, cipher} \cup K), {"listing"})

\* GPGME_EVENT_NEXT_KEY: a wrapper for a new key, which gpgme has no use for afterwards.
\* The client adopts the reference the wrapper was made with, or takes one of its own.
NextKey ==
  /\ op.phase = "run" /\ "key" \in op.gives
  /\ Room /\ NativeRoom
  /\ LET x == NewObject("key")
         n == NewNative("key")
         wrapped == Wrap(RefNatives(AddNatives(heap, {n}), Single(n)), x, n, Nothing)
         after == UnrefNatives(wrapped, Single(n))
     IN /\ \/ heap' = after /\ strays' = strays
           \/ heap' = RefEach(after, Single(x)) /\ strays' = strays \cup {x}
        /\ mine' = mine \cup {x}
  /\ UNCHANGED <<ctx, op, kept>>

\* gpgme is done; its results stay with the context.  The client's callback runs next.
Finish ==
  /\ op.phase = "run"
  /\ LET results == {NewNative(k) : k \in op.gives \ {"key"}}
     IN /\ Cardinality(DOMAIN heap.native \cup results) <= MaxNatives
        /\ heap' = AddNatives(heap, results)
        /\ ctx' = [ctx EXCEPT !.results = results]
  /\ op' = [op EXCEPT !.phase = "done", !.uses = {}]
  /\ UNCHANGED <<mine, strays, kept>>

\* The task goes, and the destroy function of its data with it: the arguments are released,
\* then the context, which the task and the source reference.
Slip_KeepData(h) ==
  LET given == {x \in DOMAIN op.args : Class(x) = "key"}
  IN UnrefEach(h, [x \in given |-> op.args[x]])
ReleaseArguments(h) == UnrefEach(UnrefNatives(h, op.keys), op.args)

\* With recipients, g_gpg_encrypt_source_finalize frees the middle of an array: the
\* program stops there.
EndOperation ==
  /\ op.phase = "done"
  /\ IF op.keys # EmptyBag
     THEN /\ op' = [NoOperation EXCEPT !.phase = "aborted"]
          /\ UNCHANGED <<heap, ctx>>
     ELSE /\ UnrefCtx(ReleaseArguments(heap), ctx, 2)
          /\ op' = NoOperation
  /\ UNCHANGED <<mine, strays, kept>>

---------------------------------------------------------------------------
GetList(x) ==
  \/ GetSubkeys(x) \/ GetUids(x) \/ GetKeySigs(x) \/ GetRecipients(x) \/ GetSignatures(x)
  \/ GetNotations(x) \/ GetNewSignatures(x) \/ GetInvalidSigners(x) \/ GetInvalidRecipients(x)

Caller ==
  \/ NewData \/ DropCtx \/ ClearSigners
  \/ \E x \in mine : FreeToBytes(x) \/ GetList(x) \/ Drop(x) \/ AddSigner(x)
  \/ \E n \in ctx.results : GetResult(n)

BeginOperation ==
  \/ Keylist
  \/ \E P, S \in OptionalBuffer : GenerateKey(P, S)
  \/ \E k \in Mine("key") : Delete(k) \/ ChangePassword(k) \/ \E d \in Buffers : Edit(k, d)
  \/ \E d \in Buffers : Export(d) \/ Import(d)
  \/ \E K \in KeyLists : ImportKeys(K) \/ \E D \in OptionalBuffer : ExportKeys(K, D)
  \/ \E d, e \in Buffers :
       \/ Decrypt(d, e) \/ DecryptVerify(d, e) \/ Sign(d, e)
       \/ \E t \in Buffers : Verify(d, t, e)
       \/ \E K \in KeyLists : Encrypt(K, d, e)

ObjectsNext ==
  op.phase # "aborted" /\ (Caller \/ BeginOperation \/ NextKey \/ Finish \/ EndOperation)

ObjectsSpec == ObjectsInit /\ [][ObjectsNext]_objectsVars

---------------------------------------------------------------------------
(* Properties.                                                              *)

\* Whatever the client lets go of, and whatever the context does next, a wrapper that is
\* alive points into a structure of gpgme that is alive, and so does its owner.  Exceptions:
\* a buffer that was taken away, and a notation, which keeps nothing alive.
LivePointers ==
  \A x \in DOMAIN heap.obj :
    LET w == heap.obj[x]
    IN \/ Class(x) = "notation"
       \/ Class(x) = "data" /\ w.at = Nothing
       \/ /\ w.at \in DOMAIN heap.native
          /\ w.owner = Nothing \/ (w.owner \in DOMAIN heap.obj /\ heap.obj[w.owner].at = w.at)

\* What gpgme works on while an operation runs is alive, the context and the keys it is to
\* sign with included, although the client may have dropped its wrappers.
ArgumentsHeld ==
  op.phase = "run" => ctx.refs > 0 /\ op.uses \subseteq DOMAIN heap.native

\* Every reference has a holder: nothing is released twice and nothing stays when its last
\* holder is gone, except with the strays and with operations that did not start.
One(b) == IF b THEN 1 ELSE 0
HoldersOf(x) ==
  One(x \in mine) + One(x \in strays) + Copies(ctx.signers, x)
  + Copies(op.args, x) + Copies(kept.args, x)
  + Cardinality({y \in DOMAIN heap.obj : heap.obj[y].owner = x})
HoldersOfNative(n) ==
  One(n \in ctx.results) + Copies(ctx.gpgme, n) + Copies(op.keys, n) + Copies(kept.keys, n)
  + Cardinality({y \in DOMAIN heap.obj : Class(y) \in Owning /\ heap.obj[y].at = n})
EveryReferenceIsHeld ==
  op.phase # "aborted" =>
    /\ \A x \in DOMAIN heap.obj : heap.obj[x].refs = HoldersOf(x) /\ HoldersOf(x) > 0
    /\ \A n \in DOMAIN heap.native : heap.native[n] = HoldersOfNative(n) /\ HoldersOfNative(n) > 0
    /\ ctx.refs = One(ctx.mine) + 2 * One(op.phase # "idle") + 2 * kept.ctx
=============================================================================
