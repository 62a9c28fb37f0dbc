---------------------------- MODULE RecordLists ----------------------------
(***************************************************************************)
(* What the generated classes promise: a message is a list of records, and *)
(* a record is a function from the fields that are set to their values.    *)
(* There are no bits, no stale values, no sizes and no users kept for      *)
(* later use; writing a list and reading it back is a copy.                *)
(***************************************************************************)
EXTENDS Naturals, Sequences

CONSTANTS
  Objects,   \* the messages a program holds
  ValuesOf,  \* field -> the values it may have
  Initially  \* field -> what it holds when one asks for a pointer to it

VARIABLES
  list,      \* object -> its records
  got        \* what the last accessor returned

vars == <<list, got>>

Empty == [f \in {} |-> {}]

Init ==
  /\ list = [o \in Objects |-> << >>]
  /\ got = << >>

(* The partial functions that agree with r except at f.                    *)
With(r, f, v) == [g \in DOMAIN r \cup {f} |-> IF g = f THEN v ELSE r[g]]
Without(r, f) == [g \in DOMAIN r \ {f} |-> r[g]]
Over(r, s) ==
  [g \in DOMAIN r \cup DOMAIN s |-> IF g \in DOMAIN s THEN s[g] ELSE r[g]]

Quiet == UNCHANGED got

(* Record i of o becomes r.                                                *)
Update(o, i, r) == list' = [list EXCEPT ![o] = [@ EXCEPT ![i] = r]]

-----------------------------------------------------------------------------
Get(o, i, f) ==
  /\ got' = <<f, IF f \in DOMAIN list[o][i] THEN list[o][i][f]
                                            ELSE Initially[f]>>
  /\ UNCHANGED list

SetField(o, i, f, v) ==
  /\ v \in ValuesOf[f]
  /\ Update(o, i, With(list[o][i], f, v))
  /\ Quiet

TouchField(o, i, f) ==
  /\ f \notin DOMAIN list[o][i]
  /\ Update(o, i, With(list[o][i], f, Initially[f]))
  /\ Quiet

(* The same of a field that is set.                                        *)
Touched(o, i, f) ==
  /\ f \in DOMAIN list[o][i]
  /\ UNCHANGED vars

UnsetField(o, i, f) ==
  /\ Update(o, i, Without(list[o][i], f))
  /\ Quiet

Release(o, i, f) ==
  /\ f \in DOMAIN list[o][i]
  /\ Update(o, i, Without(list[o][i], f))
  /\ got' = <<f, list[o][i][f]>>

Forget(o, i) == Update(o, i, Empty) /\ Quiet

Merge(o, i, p, j) == Update(o, i, Over(list[o][i], list[p][j])) /\ Quiet

Assign(o, i, p, j) == Update(o, i, list[p][j]) /\ Quiet

Exchange(o, i, p, j) ==
  /\ list' = [list EXCEPT ![o] = [@ EXCEPT ![i] = list[p][j]],
                          ![p] = [@ EXCEPT ![j] = list[o][i]]]
  /\ Quiet

Add(o) == list' = [list EXCEPT ![o] = Append(@, Empty)] /\ Quiet

Become(o, l) == list' = [list EXCEPT ![o] = l] /\ Quiet

ExchangeAll(o, p) ==
  /\ list' = [list EXCEPT ![o] = list[p], ![p] = list[o]]
  /\ Quiet

Next ==
  \E o \in Objects :
    \/ Add(o)
    \/ Become(o, << >>)
    \/ \E p \in Objects \ {o} :
         \/ Become(o, list[p])
         \/ Become(o, list[o] \o list[p])
         \/ ExchangeAll(o, p)
    \/ \E i \in DOMAIN list[o] :
         \/ Forget(o, i)
         \/ \E f \in DOMAIN ValuesOf :
              \/ Get(o, i, f) \/ Release(o, i, f)
              \/ TouchField(o, i, f) \/ UnsetField(o, i, f)
              \/ \E v \in ValuesOf[f] : SetField(o, i, f, v)
         \/ \E p \in Objects \ {o} : \E j \in DOMAIN list[p] :
              \/ Merge(o, i, p, j) \/ Assign(o, i, p, j)
              \/ Exchange(o, i, p, j)

Spec == Init /\ [][Next]_vars
=============================================================================
