---------------------------- MODULE DeviceQueue -----------------------------
(***************************************************************************)
(* What a block driver promises through storage/block Queue: a request it  *)
(* takes is answered once. `Ok` means the device did it, and a read then   *)
(* carries what the medium held when the device did it. An error may leave *)
(* the request adrift: the device can still carry it out, once, with the   *)
(* bytes it was given, until the device is stopped. Of a device that cannot *)
(* be told which answers were taken, an error says nothing: the device may *)
(* have done the request all the same.                                     *)
(***************************************************************************)
EXTENDS Integers

CONSTANTS Ids, Kinds

VARIABLES open,    \* requests taken and not yet answered
          adrift,  \* requests answered, which the device may still carry out
          medium,  \* the bytes on the medium, by the request that wrote them
          answer,  \* the answer given, until the next call
          deaf     \* the device cannot be told which answers were taken

vars == <<open, adrift, medium, answer, deaf>>

Unanswered == [none |-> TRUE]

Init == open = {} /\ adrift = {} /\ medium = 0 /\ answer = Unanswered /\ deaf = FALSE

Waiting(id, kind) == [id |-> id, kind |-> kind, state |-> "waiting", val |-> 0]
Refused(id) == [id |-> id, kind |-> "none", state |-> "failed", val |-> 0]

Accept(id, kind) ==
  /\ \A r \in open \cup adrift : r.id # id
  /\ open' = open \cup {Waiting(id, kind)}
  /\ answer' = Unanswered \/ answer' = answer
  /\ UNCHANGED <<adrift, medium, deaf>>

\* A request the driver answers itself; one it had already published may
\* still be carried out.
Fail(id, kind, published) ==
  /\ \A r \in open \cup adrift : r.id # id
  /\ open' = open \cup {Refused(id)}
  /\ adrift' = IF published THEN adrift \cup {[id |-> id, kind |-> kind]} ELSE adrift
  /\ answer' = Unanswered \/ answer' = answer
  /\ UNCHANGED <<medium, deaf>>

Effect(id, kind) == medium' = IF kind = "Write" THEN id ELSE medium

\* The device carries a request out, or reports that it could not.
Serve(r, ok) ==
  /\ r \in open /\ r.state = "waiting"
  /\ open' = (open \ {r}) \cup
               {[id |-> r.id, kind |-> r.kind, state |-> IF ok THEN "served" ELSE "failed",
                 val |-> IF ok /\ r.kind = "Read" THEN medium ELSE 0]}
  /\ IF ok THEN Effect(r.id, r.kind) ELSE UNCHANGED medium
  /\ UNCHANGED <<adrift, answer, deaf>>

Drift(r, ok) ==
  /\ r \in adrift /\ adrift' = adrift \ {r}
  /\ IF ok THEN Effect(r.id, r.kind) ELSE UNCHANGED medium
  /\ UNCHANGED <<open, answer, deaf>>

GivenUp(r) == adrift' = adrift \cup {[id |-> r.id, kind |-> r.kind]}

Answer(r) ==
  /\ r \in open /\ open' = open \ {r} /\ UNCHANGED <<medium, deaf>>
  /\ \/ /\ r.state = "served" /\ UNCHANGED adrift
        /\ answer' = [id |-> r.id, result |-> "Ok", val |-> r.val]
     \/ /\ r.state = "failed" /\ UNCHANGED adrift
        /\ \E e \in {"Device", "Range", "Unaligned"} :
             answer' = [id |-> r.id, result |-> e, val |-> 0]
     \/ /\ r.state = "waiting" /\ GivenUp(r)
        /\ answer' = [id |-> r.id, result |-> "Timeout", val |-> 0]
     \/ /\ deaf /\ (IF r.state = "waiting" THEN GivenUp(r) ELSE UNCHANGED adrift)
        /\ \E e \in {"Device", "Timeout"} : answer' = [id |-> r.id, result |-> e, val |-> 0]

\* The next call begins.
Call == answer' = Unanswered /\ UNCHANGED <<open, adrift, medium, deaf>>

\* The device is stopped, and the next one starts from nothing.
Stop ==
  /\ open' = {} /\ adrift' = {} /\ medium' = 0 /\ answer' = Unanswered
  /\ deaf' \in BOOLEAN

Next ==
  \/ Stop \/ Call
  \/ \E id \in Ids, kind \in Kinds, b \in BOOLEAN : Accept(id, kind) \/ Fail(id, kind, b)
  \/ \E r \in open : Answer(r) \/ \E ok \in BOOLEAN : Serve(r, ok)
  \/ \E r \in adrift, ok \in BOOLEAN : Drift(r, ok)

Spec == Init /\ [][Next]_vars
=============================================================================
