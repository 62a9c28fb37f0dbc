------------------------------ MODULE RestWire ------------------------------
(***************************************************************************)
(* What crosses the wire between the REST server and the admin console:    *)
(* the list of users in an answer of get_users, the name in a request of   *)
(* kick_user.  ChatServer has the two calls among the events of the bus,   *)
(* with a list of names that arrives as it was sent; here is the encoding. *)
(* A POST that fails brings nothing over, or its answer does not come.     *)
(***************************************************************************)
EXTENDS Messages, Trim

CONSTANTS
  Order,    \* the names, in the order of std::set<User>
  Rows,     \* what may be known of a user: ip, port, joined_timestamp
  Spelling, \* the characters of each text
  MaxLine   \* bound: characters of a line that is typed

ASSUME RestWireAssumption ==
  /\ Fields = {"username", "ip", "joined_timestamp", "port"}
  /\ Order \in Seq(Text \ {""})
  /\ \A r \in Rows : r.ip \in Text /\ r.port \in Numbers
                       /\ r.joined_timestamp \in Numbers
  /\ Spelling \in [Text -> Seq(Letters \cup Blanks)]
  /\ \A s, t \in Text : Spelling[s] = Spelling[t] => s = t
  /\ Spelling[""] = << >>
  /\ MaxLine \in Nat

VARIABLES
  users_known, \* ClientMgr.users: name -> its row, for those it lists
  console,     \* where the console is
  http,        \* the body that is on its way
  printed,     \* the lines on the screen
  asked,       \* the name the last EVENT_ID_DISCONNECT_USER was for
  listed,      \* history: what the last answer was made from
  typed        \* history: the last line that was not blank, or none when its
               \* request failed

wireVars == <<users_known, console, http, printed, asked, listed, typed>>

Lines == UNION {[1 .. n -> Letters \cup Blanks] : n \in 0 .. MaxLine}

HasLetter(s) == \E i \in DOMAIN s : s[i] \in Letters

Names == {Order[i] : i \in DOMAIN Order}

Line(n, r) == <<n, r.ip, r.port, r.joined_timestamp>>

(* The users in the order in which Handler_GetUsers goes through them.     *)
Listing ==
  LET upto[i \in 0 .. Len(Order)] ==
        IF i = 0 THEN << >>
        ELSE IF Order[i] \in DOMAIN users_known
        THEN Append(upto[i - 1], Line(Order[i], users_known[Order[i]]))
        ELSE upto[i - 1]
  IN  upto[Len(Order)]

WireInit ==
  /\ users_known = [n \in {} |-> {}]
  /\ console = "listing"
  /\ http = << >>
  /\ printed = << >>
  /\ asked = ""
  /\ listed = << >>
  /\ typed = << >>

(* Users come and go: see ClientMgr.                                       *)
Change ==
  /\ \E n \in Names :
       \/ \E r \in Rows :
            /\ n \notin DOMAIN users_known
            /\ users_known' = [m \in DOMAIN users_known \cup {n} |->
                                 IF m = n THEN r ELSE users_known[m]]
       \/ /\ n \in DOMAIN users_known
          /\ users_known' = [m \in DOMAIN users_known \ {n} |->
                               users_known[m]]
  /\ UNCHANGED <<console, http, printed, asked, listed, typed>>

-----------------------------------------------------------------------------
(* One turn of the loop of Handler_GetUsers.  The mutant has the two       *)
(* strings the wrong way round.                                            *)
AddLine_mutant(m, line) ==
  LET l == add_users(m)
      u == Set(Set(l.elements[l.size], "username", line[2]), "ip", line[1])
  IN  [l EXCEPT !.elements[l.size] =
                  Set(Set(u, "port", line[3]), "joined_timestamp", line[4])]
AddLine(m, line) ==
  LET l == add_users(m)
      u == Set(Set(l.elements[l.size], "username", line[1]), "ip", line[2])
  IN  [l EXCEPT !.elements[l.size] =
                  Set(Set(u, "port", line[3]), "joined_timestamp", line[4])]

(* The answer, from the copy of users that GET_USERS filled in.            *)
Handler_GetUsers ==
  LET conn_users_msg[i \in 0 .. Len(Listing)] ==
        IF i = 0 THEN NoUsers ELSE AddLine(conn_users_msg[i - 1], Listing[i])
  IN  /\ console = "listing"
      /\ http' = ListSerialize(ListByteSizeLong(conn_users_msg[Len(Listing)]))
      /\ listed' = Listing
      /\ console' = "answered"
      /\ UNCHANGED <<users_known, printed, asked, typed>>

(* GetUsers and the loop of PrintUsers, which copies each user.            *)
PrintUsers ==
  LET conn_users == ListParse(ListClear(NoUsers), http)
      line(u) == <<u.val["username"], u.val["ip"], u.val["port"],
                   u.val["joined_timestamp"]>>
  IN  /\ console = "answered"
      /\ printed' = [i \in DOMAIN users(conn_users) |->
                       line(CopyOf(users(conn_users)[i]))]
      /\ console' = IF conn_users.size > 0 THEN "prompt" ELSE "listing"
      /\ UNCHANGED <<users_known, http, asked, listed, typed>>

(* No answer of get_users: an error is printed, and Enter leads back.      *)
PrintUsersFails ==
  /\ console = "answered"
  /\ printed' = << >>
  /\ console' = "listing"
  /\ UNCHANGED <<users_known, http, asked, listed, typed>>

(* The body of the request for n.                                          *)
KickBody(n) == Kick_Serialize(Kick_set_username(NewKick, n))

(* The name is what trim leaves of a line; an empty one is not sent.  Lines *)
(* of which something is left that is not in Text are out of bounds.       *)
KickUser ==
  /\ console = "prompt"
  /\ \E s \in Lines, n \in Text :
       /\ Spelling[n] = trim(s)
       /\ typed' = IF HasLetter(s) THEN s ELSE typed
       /\ http' = IF n = "" THEN http ELSE KickBody(n)
       /\ console' = IF n = "" THEN "listing" ELSE "kicking"
  /\ UNCHANGED <<users_known, printed, asked, listed>>

Handler_KickUser ==
  /\ console = "kicking"
  /\ asked' = Kick_username(Kick_Parse(NewKick, http))
  /\ console' = "listing"
  /\ UNCHANGED <<users_known, http, printed, listed, typed>>

(* The request does not arrive; the console does not look at the result.   *)
KickUserFails ==
  /\ console = "kicking"
  /\ console' = "listing"
  /\ typed' = << >>
  /\ UNCHANGED <<users_known, http, printed, asked, listed>>

WireNext ==
  \/ Change
  \/ Handler_GetUsers \/ PrintUsers \/ PrintUsersFails
  \/ KickUser \/ Handler_KickUser \/ KickUserFails

WireSpec == WireInit /\ [][WireNext]_wireVars

-----------------------------------------------------------------------------
(* The screen shows the users the answer was made from: every one of them, *)
(* in their order, with its own address and time.                          *)
ScreenShowsTheList == console = "prompt" => printed = listed

(* The user that is asked to leave is the one whose name was typed last,   *)
(* if that request arrived, however it was padded: what is between the     *)
(* first and the last character of the line that are not blanks, blanks in *)
(* between included.                                                       *)
AskedIsTyped ==
  console # "kicking" /\ HasLetter(typed) =>
    \E i, j \in DOMAIN typed :
      /\ {typed[i], typed[j]} \subseteq Letters
      /\ \A k \in DOMAIN typed : typed[k] \in Letters => k \in i .. j
      /\ Spelling[asked] = SubSeq(typed, i, j)
=============================================================================
