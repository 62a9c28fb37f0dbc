------------------------------ MODULE Messages ------------------------------
(***************************************************************************)
(* The generated message classes (connected_users.pb, kick_user.pb), as    *)
(* operators on values; the copies of the server and of the console are    *)
(* the same files.                                                         *)
(*                                                                         *)
(* An optional field is a bit and a value that lie side by side, and most  *)
(* of the code reads only one of them: an accessor returns the value       *)
(* whatever the bit says, the writer looks at the bits.  A nested message  *)
(* is written behind the size that an earlier pass left in it.             *)
(*                                                                         *)
(* A serialised User is a function from the fields that were written to    *)
(* their values: each is written once, so their order says nothing.  A     *)
(* list is a sequence of them, each behind its length.  Both ends have the *)
(* same .proto, so no unknown field is ever kept.                          *)
(***************************************************************************)
EXTENDS Integers, Sequences, FiniteSets

CONSTANTS
  Length,  \* the texts there are, each with its number of bytes
  Numbers, \* the values of port and joined_timestamp, below 2^31
  Fields   \* the fields of User an instance has

Text == DOMAIN Length

ASSUME MessagesAssumption ==
  /\ "" \in Text
  /\ Length \in [Text -> Nat]
  /\ Length[""] = 0
  /\ Numbers \subseteq Nat
  /\ 0 \in Numbers
  /\ Fields \subseteq {"username", "ip", "joined_timestamp", "port"}

Strings == Fields \cap {"username", "ip"}
Words == Fields \cap {"joined_timestamp", "port"}

Default(f) == IF f \in Strings THEN "" ELSE 0

-----------------------------------------------------------------------------
(* User.                                                                   *)

New == [has |-> {}, val |-> [f \in Fields |-> Default(f)], cached_size |-> 0]

Set(u, f, v) == [u EXCEPT !.has = @ \cup {f}, !.val[f] = v]

ClearField(u, f) == [u EXCEPT !.has = @ \ {f}, !.val[f] = Default(f)]

(* mutable_...() returns a pointer to a value that now counts as set.      *)
Mutable(u, f) == [u EXCEPT !.has = @ \cup {f}]

Release(u, f) == IF f \in u.has THEN ClearField(u, f) ELSE u

SetAllocated(u, f, v) == Set(u, f, v)

SetAllocatedNull(u, f) == ClearField(u, f)

(* The two numbers are zeroed together, when either is set; a string that  *)
(* is not set is not touched.  In the mutant neither are the numbers.      *)
Clear_mutant(u) ==
  [u EXCEPT !.has = {},
            !.val = [f \in Fields |->
                       IF f \in Strings \cap u.has THEN "" ELSE @[f]]]
Clear(u) ==
  [u EXCEPT !.has = {},
            !.val = [f \in Fields |->
                       IF \/ f \in Strings \cap u.has
                          \/ f \in Words /\ Words \cap u.has # {}
                         THEN Default(f)
                         ELSE @[f]]]

(* The mutant takes all values and not only those that are set.            *)
MergeFrom_mutant(u, from) ==
  [u EXCEPT !.has = @ \cup from.has, !.val = from.val]
MergeFrom(u, from) ==
  [u EXCEPT !.has = @ \cup from.has,
            !.val = [f \in Fields |-> IF f \in from.has THEN from.val[f]
                                                        ELSE @[f]]]

(* The mutant merges into what is there.                                   *)
CopyFrom_mutant(u, from) == MergeFrom(u, from)
CopyFrom(u, from) == MergeFrom(Clear(u), from)

(* The copy constructor takes the numbers with one memcpy, set or not.     *)
CopyOf(from) ==
  [New EXCEPT !.has = from.has,
              !.val = [f \in Fields |->
                         IF f \in from.has \cup Words THEN from.val[f]
                                                      ELSE Default(f)]]

(* What u is after InternalSwap with other: all of it but the cached size. *)
Swapped(u, other) == [other EXCEPT !.cached_size = u.cached_size]

-----------------------------------------------------------------------------
(* Sizes and bytes.                                                        *)

VarintSize(n) == Cardinality({k \in 1 .. 4 : n >= 128 ^ k}) + 1

FieldSize(f, v) ==
  1 + IF f \in Strings THEN VarintSize(Length[v]) + Length[v]
                       ELSE VarintSize(v)

(* The bytes of a serialised user.                                         *)
BodySize(body) ==
  LET size(f) == IF f \in DOMAIN body THEN FieldSize(f, body[f]) ELSE 0
  IN  size("username") + size("ip") + size("port") + size("joined_timestamp")

(* The mutant keeps a size that an earlier pass computed.                  *)
ByteSizeLong_mutant(u) ==
  [u EXCEPT !.cached_size =
              IF @ # 0 THEN @ ELSE BodySize([f \in u.has |-> u.val[f]])]
ByteSizeLong(u) ==
  LET size(f) == IF f \in u.has THEN FieldSize(f, u.val[f]) ELSE 0
  IN  [u EXCEPT !.cached_size = size("username") + size("ip")
                                + size("joined_timestamp") + size("port")]

Serialize(u) == [f \in u.has |-> u.val[f]]

(* Parse merges; ParseFromString is Clear and then this.                   *)
Parse(u, body) ==
  [u EXCEPT !.has = @ \cup DOMAIN body,
            !.val = [f \in Fields |-> IF f \in DOMAIN body THEN body[f]
                                                           ELSE @[f]]]

-----------------------------------------------------------------------------
(* ConnectedUsers: a RepeatedPtrField.  It keeps the users it has cleared  *)
(* behind the first size ones, and hands them out again.                   *)

NoUsers == [elements |-> << >>, size |-> 0]

users(m) == SubSeq(m.elements, 1, m.size)

add_users(m) ==
  IF m.size < Len(m.elements)
    THEN [m EXCEPT !.size = @ + 1]
    ELSE [elements |-> Append(m.elements, New), size |-> m.size + 1]

clear_users(m) ==
  [elements |-> [i \in DOMAIN m.elements |->
                   IF i <= m.size THEN Clear(m.elements[i])
                                  ELSE m.elements[i]],
   size |-> 0]

ListClear(m) == clear_users(m)

ListMergeFrom(m, from) ==
  LET total == m.size + from.size
      length == IF total > Len(m.elements) THEN total ELSE Len(m.elements)
      old(i) == IF i <= Len(m.elements) THEN m.elements[i] ELSE New
  IN  [elements |-> [i \in 1 .. length |->
                       IF i \in (m.size + 1) .. total
                         THEN MergeFrom(old(i), from.elements[i - m.size])
                         ELSE old(i)],
       size |-> total]

(* The mutant appends to what is there.                                    *)
ListCopyFrom_mutant(m, from) == ListMergeFrom(m, from)
ListCopyFrom(m, from) == ListMergeFrom(ListClear(m), from)

ListCopyOf(from) == ListMergeFrom(NoUsers, from)

ListByteSizeLong(m) ==
  [m EXCEPT !.elements = [i \in DOMAIN @ |->
                            IF i <= m.size THEN ByteSizeLong(@[i]) ELSE @[i]]]

ListSerialize(m) ==
  [i \in 1 .. m.size |-> [len |-> m.elements[i].cached_size,
                          body |-> Serialize(m.elements[i])]]

WellFormed(bytes) ==
  \A i \in DOMAIN bytes : bytes[i].len = BodySize(bytes[i].body)

(* A length that is not the body's makes the reader lose its place: it     *)
(* reads no user from there on.                                            *)
ListParse(m, bytes) ==
  LET read == {i \in DOMAIN bytes : WellFormed(SubSeq(bytes, 1, i))}
      into(l, body) == [l EXCEPT !.elements[l.size] = Parse(@, body)]
      after[i \in 0 .. Len(bytes)] ==
        IF i = 0 THEN m ELSE into(add_users(after[i - 1]), bytes[i].body)
  IN  after[Cardinality(read)]

-----------------------------------------------------------------------------
(* KickUser: one optional string.                                          *)

NewKick == [has_username |-> FALSE, username |-> ""]

Kick_set_username(k, v) ==
  [k EXCEPT !.has_username = TRUE, !.username = v]

Kick_Serialize(k) == IF k.has_username THEN {k.username} ELSE {}

Kick_Parse(k, body) ==
  IF body = {} THEN k ELSE Kick_set_username(k, CHOOSE v \in body : TRUE)

Kick_username(k) == k.username
=============================================================================
