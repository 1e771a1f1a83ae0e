------------------------------ MODULE ViewSpec ------------------------------
(***************************************************************************)
(* What a platform promises of the views it opens (crates/sys/arch:        *)
(* view.rs and platform.rs): a view translates what was granted into it    *)
(* and nothing else. No tables, levels or leaf sizes appear here: cutting  *)
(* a leaf changes no translation, and a call that fails part way has done  *)
(* a prefix of its leaves.                                                 *)
(***************************************************************************)
EXTENDS Integers, Sequences

CONSTANTS Pages,        \* the pages a domain can name
          Extents,      \* [start, level, leaves]
          Size(_),      \* pages under one leaf of a level
          Frames, Rights,
          Gateway       \* <<page, frame, rights>> of the supervisor's gateway

VARIABLES trans,        \* per view: page -> [frame, w, x, user]
          out,          \* the last call's result
          cmd           \* the last call and its arguments

None == [frame |-> -1, w |-> FALSE, x |-> FALSE, user |-> FALSE]

Leaf(frame, rights, user) == [frame |-> frame, w |-> rights.w, x |-> rights.x, user |-> user]

\* The pages of the first n leaves of e.
Prefix(e, n) == e.start .. (e.start + n * Size(e.level) - 1)

Granted(map, e, frame, rights, n) ==
  [p \in Pages |-> IF p \in Prefix(e, n) THEN Leaf(frame + p - e.start, rights, TRUE) ELSE map[p]]

Revoked(map, e, n) == [p \in Pages |-> IF p \in Prefix(e, n) THEN None ELSE map[p]]

Prepared(map, n) ==
  [p \in Pages |-> IF \E i \in 1..n : Gateway[i][1] = p
                   THEN LET i == CHOOSE i \in 1..n : Gateway[i][1] = p
                        IN Leaf(Gateway[i][2], Gateway[i][3], FALSE)
                   ELSE map[p]]

Init == trans = <<>> /\ out = "Ok" /\ cmd = <<"init">>

OpenView ==
  /\ cmd' = <<"open">> /\ out' = "Ok"
  /\ trans' = Append(trans, [p \in Pages |-> None])

Grant(v, e, frame, rights) ==
  /\ cmd' = <<"grant", v, e, frame, rights>>
  /\ \E n \in 0..e.leaves :
       /\ trans' = [trans EXCEPT ![v] = Granted(@, e, frame, rights, n)]
       /\ (out' = "Ok") = (n = e.leaves)

Revoke(v, e) ==
  /\ cmd' = <<"revoke", v, e>>
  /\ \E n \in 0..e.leaves :
       /\ trans' = [trans EXCEPT ![v] = Revoked(@, e, n)]
       /\ (out' = "Ok") = (n = e.leaves)

PrepareDomain(v) ==
  /\ cmd' = <<"prepare", v>>
  /\ \E n \in 0..Len(Gateway) :
       /\ trans' = [trans EXCEPT ![v] = Prepared(@, n)]
       /\ (out' = "Ok") = (n = Len(Gateway))

\* Any other call, and one refused outright, leaves every translation alone.
Other ==
  /\ UNCHANGED trans
  /\ cmd'[1] \in {"open", "grant", "revoke", "prepare"} => out' # "Ok"

Next ==
  \/ OpenView \/ Other
  \/ \E v \in DOMAIN trans :
       \/ \E e \in Extents, f \in Frames, r \in Rights : Grant(v, e, f, r)
       \/ \E e \in Extents : Revoke(v, e)
       \/ PrepareDomain(v)

Spec == Init /\ [][Next]_<<trans, out, cmd>>
=============================================================================
