--------------------------- MODULE MessageObjects ---------------------------
(***************************************************************************)
(* A program that calls the generated classes in any order: objects of     *)
(* ConnectedUsers, and the users in them through add_users and             *)
(* mutable_users(i).  Serialising one and parsing it into another is one   *)
(* action; RestWire has the two ends apart.                                *)
(*                                                                         *)
(* The objects are distinct where the classes require it (MergeFrom of an  *)
(* object into itself is a debug assertion) and where a call with the same *)
(* object twice returns at once (CopyFrom, Swap, move assignment).         *)
(***************************************************************************)
EXTENDS Messages

CONSTANTS
  Objects,  \* the ConnectedUsers objects of the program
  MaxUsers  \* bound: users an object has room for

ASSUME MessageObjectsAssumption == MaxUsers \in Nat

VARIABLES
  message, \* object -> its RepeatedPtrField
  got,     \* what the last accessor returned, with its field
  odd      \* history: was the number of calls odd?  A call that does nothing
           \* is a step, too

vars == <<message, got, odd>>

Init ==
  /\ message = [o \in Objects |-> NoUsers]
  /\ got = << >>
  /\ odd = FALSE

Values(f) == IF f \in Strings THEN Text ELSE Numbers

Slots(o) == 1 .. message[o].size

user(o, i) == message[o].elements[i]

(* mutable_users(i) of o is now u.                                         *)
Write(o, i, u) ==
  message' = [message EXCEPT ![o].elements[i] = u]

-----------------------------------------------------------------------------
(* The accessors of one field.                                             *)

GetField(o, i, f) ==
  /\ got' = <<f, user(o, i).val[f]>>
  /\ UNCHANGED message

SetField(o, i, f, v) ==
  /\ Write(o, i, Set(user(o, i), f, v))
  /\ UNCHANGED got

ClearUserField(o, i, f) ==
  /\ Write(o, i, ClearField(user(o, i), f))
  /\ UNCHANGED got

MutableField(o, i, f) ==
  /\ f \in Strings
  /\ Write(o, i, Mutable(user(o, i), f))
  /\ UNCHANGED got

(* Of a field that is not set it returns the null pointer, and that is all *)
(* it does.                                                                *)
ReleaseField(o, i, f) ==
  /\ f \in Strings \cap user(o, i).has
  /\ got' = <<f, user(o, i).val[f]>>
  /\ Write(o, i, Release(user(o, i), f))

SetAllocatedField(o, i, f, v) ==
  /\ f \in Strings
  /\ Write(o, i, SetAllocated(user(o, i), f, v))
  /\ UNCHANGED got

SetAllocatedFieldNull(o, i, f) ==
  /\ f \in Strings
  /\ Write(o, i, SetAllocatedNull(user(o, i), f))
  /\ UNCHANGED got

-----------------------------------------------------------------------------
(* A whole user.                                                           *)

ClearUser(o, i) ==
  /\ Write(o, i, Clear(user(o, i)))
  /\ UNCHANGED got

MergeUser(o, i, p, j) ==
  /\ Write(o, i, MergeFrom(user(o, i), user(p, j)))
  /\ UNCHANGED got

CopyUser(o, i, p, j) ==
  /\ Write(o, i, CopyFrom(user(o, i), user(p, j)))
  /\ UNCHANGED got

(* No arena owns the objects of this program, so a move is a swap, too.    *)
SwapUsers(o, i, p, j) ==
  /\ message' =
       [message EXCEPT
          ![o].elements[i] = Swapped(user(o, i), user(p, j)),
          ![p].elements[j] = Swapped(user(p, j), user(o, i))]
  /\ UNCHANGED got

MoveUser(o, i, p, j) == SwapUsers(o, i, p, j)

-----------------------------------------------------------------------------
(* A whole list.                                                           *)

Become(o, m) ==
  /\ Len(m.elements) <= MaxUsers
  /\ message' = [message EXCEPT ![o] = m]
  /\ UNCHANGED got

Add(o) == Become(o, add_users(message[o]))

Erase(o) == Become(o, ListClear(message[o]))

Merge(o, p) == Become(o, ListMergeFrom(message[o], message[p]))

Copy(o, p) == Become(o, ListCopyFrom(message[o], message[p]))

(* An object made by the copy constructor takes the place of o.            *)
Construct(o, p) == Become(o, ListCopyOf(message[p]))

Swap(o, p) ==
  /\ message' = [message EXCEPT ![o] = message[p], ![p] = message[o]]
  /\ UNCHANGED got

(* p.SerializeAsString(), whose first pass leaves the sizes in p, and then *)
(* o.ParseFromString().                                                    *)
Transfer(o, p) ==
  LET sized == ListByteSizeLong(message[p])
      parsed == ListParse(ListClear(message[o]), ListSerialize(sized))
  IN  /\ Len(parsed.elements) <= MaxUsers
      /\ message' = [message EXCEPT ![o] = parsed, ![p] = sized]
      /\ UNCHANGED got

-----------------------------------------------------------------------------
FieldCall(o, i, f) ==
  \/ GetField(o, i, f) \/ ClearUserField(o, i, f)
  \/ MutableField(o, i, f) \/ ReleaseField(o, i, f)
  \/ SetAllocatedFieldNull(o, i, f)
  \/ \E v \in Values(f) : SetField(o, i, f, v) \/ SetAllocatedField(o, i, f, v)

UserCall(o, i) ==
  \/ ClearUser(o, i)
  \/ \E f \in Fields : FieldCall(o, i, f)
  \/ \E p \in Objects \ {o} : \E j \in Slots(p) :
       \/ MergeUser(o, i, p, j)
       \/ CopyUser(o, i, p, j)
       \/ SwapUsers(o, i, p, j)
       \/ MoveUser(o, i, p, j)

ListCall(o) ==
  \/ Add(o)
  \/ Erase(o)
  \/ \E p \in Objects \ {o} :
       Merge(o, p) \/ Copy(o, p) \/ Construct(o, p) \/ Swap(o, p)
         \/ Transfer(o, p)

Next ==
  /\ \E o \in Objects : ListCall(o) \/ \E i \in Slots(o) : UserCall(o, i)
  /\ odd' = ~odd

Spec == Init /\ [][Next]_vars

-----------------------------------------------------------------------------
(* A field that is not set holds its default, also in the users that were  *)
(* cleared and wait to be handed out by add_users, which have no field set *)
(* (the accessors return the value without a look at the bit, Clear leaves *)
(* alone what it takes for unset, and the copy constructor copies it).     *)
UnsetIsDefault ==
  \A o \in Objects : \A i \in DOMAIN message[o].elements :
    /\ \A f \in Fields \ user(o, i).has : user(o, i).val[f] = Default(f)
    /\ i > message[o].size => user(o, i).has = {}

(* The length that is written before each user is the number of bytes that *)
(* are written for it, whatever was computed for the same object before.   *)
LengthsAgree ==
  \A o \in Objects :
    WellFormed(ListSerialize(ListByteSizeLong(message[o])))

(* What the objects stand for: lists of partial functions.                 *)
records ==
  [o \in Objects |->
     [i \in Slots(o) |-> [f \in user(o, i).has |-> user(o, i).val[f]]]]

Records ==
  INSTANCE RecordLists WITH
    list <- records,
    ValuesOf <- [f \in Fields |-> Values(f)],
    Initially <- [f \in Fields |-> Default(f)]

\* Each call does what RecordLists has for it.  set_allocated takes a pointer
\* to a value, or none.
EachFieldCall(o, i, f) ==
  /\ GetField(o, i, f) => Records!Get(o, i, f)
  /\ ClearUserField(o, i, f) => Records!UnsetField(o, i, f)
  /\ MutableField(o, i, f) =>
       Records!TouchField(o, i, f) \/ Records!Touched(o, i, f)
  /\ ReleaseField(o, i, f) => Records!Release(o, i, f)
  /\ SetAllocatedFieldNull(o, i, f) => Records!UnsetField(o, i, f)
  /\ \A v \in Values(f) :
       SetField(o, i, f, v) \/ SetAllocatedField(o, i, f, v) =>
         Records!SetField(o, i, f, v)

EachUserCall(o, i) ==
  /\ ClearUser(o, i) => Records!Forget(o, i)
  /\ \A f \in Fields : EachFieldCall(o, i, f)
  /\ \A p \in Objects \ {o} : \A j \in Slots(p) :
       /\ MergeUser(o, i, p, j) => Records!Merge(o, i, p, j)
       /\ CopyUser(o, i, p, j) => Records!Assign(o, i, p, j)
       /\ SwapUsers(o, i, p, j) => Records!Exchange(o, i, p, j)

EachListCall(o) ==
  /\ Add(o) => Records!Add(o)
  /\ Erase(o) => Records!Become(o, << >>)
  /\ \A p \in Objects \ {o} :
       /\ Merge(o, p) => Records!Become(o, records[o] \o records[p])
       /\ Copy(o, p) \/ Construct(o, p) \/ Transfer(o, p) =>
            Records!Become(o, records[p])
       /\ Swap(o, p) => Records!ExchangeAll(o, p)

EachCall ==
  \A o \in Objects :
    EachListCall(o) /\ \A i \in Slots(o) : EachUserCall(o, i)

(***************************************************************************)
(* The classes behave like lists of partial functions, and each call does  *)
(* what its name says of them: a clear leaves nothing, a merge appends, a  *)
(* copy is the same list and leaves nothing of the old one, a swap swaps,  *)
(* and what is parsed from a list that was written is that list.           *)
(***************************************************************************)
ImplementsRecords == Records!Init /\ [][EachCall]_vars
=============================================================================
