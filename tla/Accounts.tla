------------------------------ MODULE Accounts -------------------------------
(***************************************************************************)
(* Accounts: the tables user_credentials and auth_tokens, and the handlers *)
(* that change them, statement by statement: signup_request, login_request *)
(* (the token it looks for or makes), change_password_request and          *)
(* update_profile_request.  Any worker may run any of them: signups come   *)
(* from anywhere and an account is used from several devices.  Statements  *)
(* of two workers interleave, any of them may fail, before or after it has *)
(* taken effect, and the process may end.  The answer to a change or to an *)
(* update is a step of its own: it tells the client what is stored, and    *)
(* another worker may have stored something else since the statement.  The *)
(* answer of a signup or a login is part of its last statement: nothing    *)
(* below rests on how late it is sent.                                     *)
(*                                                                         *)
(* What a login does after it has a token is in BingoServer, as is         *)
(* reconnect_request, of which this module has the tokens it accepts.      *)
(***************************************************************************)
EXTENDS Naturals, Sequences

CONSTANTS
  Field,        \* the columns of a profile
  Value,        \* what they hold
  Password, Token,
  NoProfile,    \* no profile has been read
  Checked,      \* the fields a signup looks for, in this order
  Keyed,        \* the fields the table has a unique key on, if any
  Worker,       \* worker threads
  Fails,        \* TRUE if statements may fail for other reasons than a key
  MaxUsers,     \* bound: rows of user_credentials
  MaxRequests,  \* bound: requests handled in the life of the system
  MaxExits      \* bound: times the process ends and is started again

ASSUME AccountsAssumption ==
  /\ "username" \in Field
  /\ NoProfile \notin [Field -> Value]
  /\ Checked \in Seq(Field) /\ Checked # << >>
  /\ Keyed \subseteq Field
  /\ Fails \in BOOLEAN
  /\ MaxUsers \in Nat /\ MaxRequests \in Nat /\ MaxExits \in Nat

VARIABLES
  user_credentials,  \* the table, in the order of user_id
  auth_tokens,       \* the table: <<user_id, token>>, a row stored twice is one
  handler,           \* what each worker is doing
  passwords,         \* history: of each user, what the requests that are over may have
  profiles,          \* history: left in the table, as far as its clients know
  given,             \* history: <<user_id, token>> sent in a login response
  overlapped,        \* history: users whose logins two workers have handled at once
  silent,            \* history: types of requests that were never answered
  requests,          \* requests taken so far
  exits              \* how often the process has ended

tables == <<user_credentials, auth_tokens>>
clients == <<passwords, profiles, given>>
bounds == <<requests, exits>>
vars == <<tables, handler, clients, overlapped, silent, bounds>>

UserID == 1..MaxUsers
Profile == [Field -> Value]

\* after, signed_up and updated are history: how many users there were when the
\* signup was taken, the profile it gave, and whether that was ever updated.
UserRow == [profile : Profile, password : Password, after : Nat,
            signed_up : Profile, updated : BOOLEAN]

\* The requests; N: how many users there may be when a signup is taken.
SignupRequest(N) == [type : {"signup"}, profile : Profile, password : Password, after : N]
LoginRequest == [type : {"login"}, username : Value, password : Password]
ChangeRequest == [type : {"change"}, user_id : UserID, new_password : Password]
UpdateRequest == [type : {"update"}, user_id : UserID, profile : Profile]
Request(N) == SignupRequest(N) \cup LoginRequest \cup ChangeRequest \cup UpdateRequest
NoRequest == [type |-> "none"]

\* A worker that waits for a packet; the locals of its handler are gone: the user
\* it works for (0: none yet), the checks passed, the profile it has read.
Idle == [at |-> "idle", request |-> NoRequest, user |-> 0, checks |-> 0,
         read |-> NoProfile]

Users == DOMAIN user_credentials
Holders(f, v) == {u \in Users : user_credentials[u].profile[f] = v}
TokensOf(u) == {t \in Token : <<u, t>> \in auth_tokens}

Init ==
  /\ user_credentials = << >>
  /\ auth_tokens = {}
  /\ handler = [w \in Worker |-> Idle]
  /\ passwords = [u \in UserID |-> {}]
  /\ profiles = [u \in UserID |-> {}]
  /\ given = {}
  /\ overlapped = {}
  /\ silent = {}
  /\ requests = 0
  /\ exits = 0

At(w, place) == handler[w].at = place
Asked(w) == handler[w].request

\* The handler goes on.
Goto(w, place) ==
  /\ handler' = [handler EXCEPT ![w].at = place]
  /\ UNCHANGED <<overlapped, silent>>

\* It sends its answer; or what it throws is caught and logged by process, and
\* nothing is sent.
Answer(w) ==
  /\ handler' = [handler EXCEPT ![w] = Idle]
  /\ UNCHANGED <<overlapped, silent>>
NoAnswer(w) ==
  /\ handler' = [handler EXCEPT ![w] = Idle]
  /\ silent' = silent \cup {Asked(w).type}
  /\ UNCHANGED overlapped

\* change_password_request and update_profile_request catch what a statement
\* throws, to answer with an error; signup_request and login_request do not.
Caught(w) == Asked(w).type \in {"change", "update"}
Failure(w) ==
  \/ Caught(w) /\ Goto(w, "error_response")
  \/ ~Caught(w) /\ NoAnswer(w)

\* Worker w begins a login of user u.
Overlap(w, u) ==
  overlapped' = overlapped \cup
    {v \in {u} : \E x \in Worker \ {w} : Asked(x).type = "login" /\ handler[x].user = u}

------------------------------------------------------------------------------
(* Histories.  An entry is what a request that is over asked for, with the     *)
(* workers that have taken a request of its kind for the same user since then, *)
(* and are still at it.                                                        *)

Entries(S) == [value : S, since : SUBSET Worker]
Entry(v) == [value |-> v, since |-> {}]
Values(entries) == {e.value : e \in entries}

\* w takes a request; it succeeds, and its client learns that what was over by the
\* time it was taken is gone; it ends in some other way, which tells nothing.
Taken(entries, w) == {[e EXCEPT !.since = @ \cup {w}] : e \in entries}
Succeeded(entries, v, w) == {e \in entries : w \notin e.since} \cup {Entry(v)}
Ended(entries, v, w) == {[e EXCEPT !.since = @ \ {w}] : e \in entries} \cup {Entry(v)}

\* The requests that are not over; an update is when its success is answered.
Open(type, u) ==
  {Asked(w) : w \in {x \in Worker : /\ Asked(x).type = type /\ handler[x].user = u
                                    /\ ~At(x, "get_user_profile")}}
OpenPasswords(u) == {r.new_password : r \in Open("change", u)}
OpenProfiles(u) == {r.profile : r \in Open("update", u)}

\* The request of w ends with an error.
EndedUnknown(w) ==
  LET u == handler[w].user
  IN  /\ passwords' = IF Asked(w).type = "change" /\ u \in Users
           THEN [passwords EXCEPT ![u] = Ended(@, Asked(w).new_password, w)] ELSE passwords
      /\ profiles' = IF Asked(w).type = "update" /\ u \in Users
           THEN [profiles EXCEPT ![u] = Ended(@, Asked(w).profile, w)] ELSE profiles

------------------------------------------------------------------------------
FirstStep(type) ==
  CASE type = "signup" -> "check_exists"
    [] type = "login"  -> "select_user"
    [] type = "change" -> "select_password"
    [] type = "update" -> "select_profile"

\* A request is taken; one to change an account may take effect from now on.
process(w) ==
  /\ At(w, "idle")
  /\ requests < MaxRequests
  /\ requests' = requests + 1
  /\ \E r \in Request({Len(user_credentials)}) :
       LET u == IF r.type \in {"change", "update"} THEN r.user_id ELSE 0
       IN  /\ handler' = [handler EXCEPT ![w] =
                [Idle EXCEPT !.at = FirstStep(r.type), !.request = r, !.user = u]]
           /\ passwords' = IF r.type = "change"
                THEN [passwords EXCEPT ![u] = Taken(@, w)] ELSE passwords
           /\ profiles' = IF r.type = "update"
                THEN [profiles EXCEPT ![u] = Taken(@, w)] ELSE profiles
  /\ UNCHANGED <<tables, given, overlapped, silent, exits>>

------------------------------------------------------------------------------
(* signup_request *)

\* One query for each checked field: somebody has the value, or the next one.
check_exists_Body(w, f) ==
  /\ At(w, "check_exists")
  /\ LET k == handler[w].checks + 1
     IN  \/ /\ Holders(f, Asked(w).profile[f]) # {}
            /\ Answer(w)
         \/ /\ Holders(f, Asked(w).profile[f]) = {}
            /\ handler' = [handler EXCEPT
                 ![w].checks = k, ![w].at = IF k = Len(Checked) THEN "insert_user" ELSE @]
            /\ UNCHANGED <<overlapped, silent>>
  /\ UNCHANGED <<tables, clients, bounds>>
check_exists_Pasted(w) == check_exists_Body(w, Checked[Len(Checked)])

check_exists(w) == check_exists_Body(w, Checked[handler[w].checks + 1])

KeyTaken(f, v, u) == f \in Keyed /\ Holders(f, v) \ {u} # {}

\* What was asked for a user before his row was there has not been stored.
insert_user(w) ==
  LET p == Asked(w).profile
      u == Len(user_credentials) + 1
  IN  /\ At(w, "insert_user")
      /\ \/ /\ \E f \in Field : KeyTaken(f, p[f], u)
            /\ NoAnswer(w)
            /\ UNCHANGED <<user_credentials, passwords, profiles>>
         \/ /\ \A f \in Field : ~KeyTaken(f, p[f], u)
            /\ u \in UserID
            /\ user_credentials' = Append(user_credentials,
                 [profile |-> p, password |-> Asked(w).password, after |-> Asked(w).after,
                  signed_up |-> p, updated |-> FALSE])
            /\ passwords' = [passwords EXCEPT ![u] = {Entry(Asked(w).password)}]
            /\ profiles' = [profiles EXCEPT ![u] = {Entry(p)}]
            /\ Answer(w) \/ (Fails /\ Failure(w))
      /\ UNCHANGED <<auth_tokens, given, bounds>>

------------------------------------------------------------------------------
(* login_request *)

select_user(w) ==
  /\ At(w, "select_user")
  /\ \/ /\ \/ Holders("username", Asked(w).username) = {}
           \/ \E u \in Holders("username", Asked(w).username) :
                user_credentials[u].password # Asked(w).password
        /\ Answer(w)
     \/ \E u \in Holders("username", Asked(w).username) :
          /\ user_credentials[u].password = Asked(w).password
          /\ handler' = [handler EXCEPT ![w].at = "select_token", ![w].user = u]
          /\ Overlap(w, u)
          /\ UNCHANGED silent
  /\ UNCHANGED <<tables, clients, bounds>>

Give(w, t) == given' = given \cup {<<handler[w].user, t>>}

select_token_Body(w, found) ==
  /\ At(w, "select_token")
  /\ \/ \E t \in found : Answer(w) /\ Give(w, t)
     \/ found = {} /\ Goto(w, "insert_token") /\ UNCHANGED given
  /\ UNCHANGED <<tables, passwords, profiles, bounds>>
select_token_Blind(w) == select_token_Body(w, {})

select_token(w) == select_token_Body(w, TokensOf(handler[w].user))

insert_token(w) ==
  /\ At(w, "insert_token")
  /\ \E t \in Token :
       /\ auth_tokens' = auth_tokens \cup {<<handler[w].user, t>>}
       /\ \/ Answer(w) /\ Give(w, t)
          \/ Fails /\ Failure(w) /\ UNCHANGED given
  /\ UNCHANGED <<user_credentials, passwords, profiles, bounds>>

------------------------------------------------------------------------------
(* change_password_request.  The old password is not looked at. *)

select_password_Unchecked(w) ==
  /\ At(w, "select_password")
  /\ Goto(w, "update_password")
  /\ UNCHANGED <<tables, clients, bounds>>

select_password(w) ==
  LET u == handler[w].user
  IN  /\ At(w, "select_password")
      /\ \/ u \notin Users /\ Goto(w, "error_response")
         \/ /\ u \in Users
            /\ Asked(w).new_password = user_credentials[u].password
            /\ Goto(w, "change_password_response")
         \/ /\ u \in Users
            /\ Asked(w).new_password # user_credentials[u].password
            /\ Goto(w, "update_password")
      /\ UNCHANGED <<tables, clients, bounds>>

update_password(w) ==
  /\ At(w, "update_password")
  /\ user_credentials' =
       [user_credentials EXCEPT ![handler[w].user].password = Asked(w).new_password]
  /\ Goto(w, "change_password_response") \/ (Fails /\ Failure(w))
  /\ UNCHANGED <<auth_tokens, clients, bounds>>

\* Success, or that the new password must be different, which tells the client as
\* much of what is stored.
change_password_response(w) ==
  /\ At(w, "change_password_response")
  /\ passwords' = [passwords EXCEPT
       ![handler[w].user] = Succeeded(@, Asked(w).new_password, w)]
  /\ Answer(w)
  /\ UNCHANGED <<tables, profiles, given, bounds>>

------------------------------------------------------------------------------
(* update_profile_request *)

\* Of a user who is not there the handler only logs.
select_profile(w) ==
  LET u == handler[w].user
  IN  /\ At(w, "select_profile")
      /\ \/ u \notin Users /\ NoAnswer(w)
         \/ /\ u \in Users
            /\ handler' = [handler EXCEPT ![w].at = "update_profile",
                                          ![w].read = user_credentials[u].profile]
            /\ UNCHANGED <<overlapped, silent>>
      /\ UNCHANGED <<tables, clients, bounds>>

\* Set the fields that differ from the profile that was read.
Updated_Once(profile, read, asked) ==
  LET f == CHOOSE f \in Field : asked[f] # read[f]
  IN  IF asked = read THEN profile ELSE [profile EXCEPT ![f] = asked[f]]

Updated(profile, read, asked) ==
  [f \in Field |-> IF asked[f] # read[f] THEN asked[f] ELSE profile[f]]

\* If none differs no statement is run.
update_profile(w) ==
  LET u == handler[w].user
      old == handler[w].read
      new == Asked(w).profile
  IN  /\ At(w, "update_profile")
      /\ \/ /\ \E f \in Field : new[f] # old[f] /\ KeyTaken(f, new[f], u)
            /\ Failure(w)
            /\ UNCHANGED user_credentials
         \/ /\ \A f \in Field : new[f] = old[f] \/ ~KeyTaken(f, new[f], u)
            /\ user_credentials' = [user_credentials EXCEPT
                 ![u].profile = Updated(@, old, new),
                 ![u].updated = @ \/ new # old]
            /\ Goto(w, "update_profile_response") \/ (Fails /\ new # old /\ Failure(w))
      /\ UNCHANGED <<auth_tokens, clients, bounds>>

\* Success; the handler goes on.
update_profile_response(w) ==
  /\ At(w, "update_profile_response")
  /\ profiles' = [profiles EXCEPT ![handler[w].user] = Succeeded(@, Asked(w).profile, w)]
  /\ Goto(w, "get_user_profile")
  /\ UNCHANGED <<tables, passwords, given, bounds>>

\* It sends the profile as it is now, if it can read it.
get_user_profile(w) ==
  /\ At(w, "get_user_profile")
  /\ Answer(w)
  /\ UNCHANGED <<tables, clients, bounds>>

------------------------------------------------------------------------------
\* The error may hide a statement that took effect.
error_response(w) ==
  /\ At(w, "error_response")
  /\ Answer(w)
  /\ EndedUnknown(w)
  /\ UNCHANGED <<tables, given, bounds>>

\* A statement fails before it has taken effect.
fail(w) ==
  /\ Fails
  /\ handler[w].at \notin {"idle", "change_password_response", "update_profile_response",
                          "get_user_profile", "error_response"}
  /\ At(w, "update_profile") => Asked(w).profile # handler[w].read
  /\ Failure(w)
  /\ UNCHANGED <<tables, clients, bounds>>

\* The process ends and is started again.
exit ==
  /\ exits < MaxExits
  /\ exits' = exits + 1
  /\ handler' = [w \in Worker |-> Idle]
  /\ passwords' = [u \in UserID |->
       {Entry(v) : v \in Values(passwords[u]) \cup OpenPasswords(u)}]
  /\ profiles' = [u \in UserID |->
       {Entry(v) : v \in Values(profiles[u]) \cup OpenProfiles(u)}]
  /\ UNCHANGED <<tables, given, overlapped, silent, requests>>

Handle(w) ==
  \/ process(w)
  \/ check_exists(w) \/ insert_user(w)
  \/ select_user(w) \/ select_token(w) \/ insert_token(w)
  \/ select_password(w) \/ update_password(w) \/ change_password_response(w)
  \/ select_profile(w) \/ update_profile(w) \/ update_profile_response(w)
  \/ get_user_profile(w)
  \/ error_response(w) \/ fail(w)

Next == exit \/ \E w \in Worker : Handle(w)

Spec == Init /\ [][Next]_vars

------------------------------------------------------------------------------
(* Properties. *)

\* Where the handler of a request can be.
PlacesOf ==
  [none   |-> {"idle"},
   signup |-> {"check_exists", "insert_user"},
   login  |-> {"select_user", "select_token", "insert_token"},
   change |-> {"select_password", "update_password", "change_password_response",
               "error_response"},
   update |-> {"select_profile", "update_profile", "update_profile_response",
               "get_user_profile", "error_response"}]

Places == UNION {PlacesOf[t] : t \in {"none", "signup", "login", "change", "update"}}

HandlerState ==
  [at : Places, request : Request(Nat) \cup {NoRequest},
   user : {0} \cup UserID, checks : 0..Len(Checked), read : Profile \cup {NoProfile}]

HandlerOK(w) ==
  /\ handler[w].at \in PlacesOf[Asked(w).type]
  /\ At(w, "check_exists") => handler[w].checks < Len(Checked)
  /\ At(w, "update_profile") => handler[w].read \in Profile
  /\ Asked(w).type \in {"change", "update"} => handler[w].user = Asked(w).user_id
  /\ handler[w].at \in {"select_token", "insert_token", "update_password",
                        "change_password_response", "update_profile",
                        "update_profile_response", "get_user_profile"}
     => handler[w].user \in Users

\* Rows and histories keep their types, and a handler that writes to the row of
\* a user has found it: no UPDATE or token is for a user who is not there.
TypeOK ==
  /\ user_credentials \in Seq(UserRow) /\ Len(user_credentials) <= MaxUsers
  /\ auth_tokens \subseteq Users \X Token
  /\ handler \in [Worker -> HandlerState]
  /\ \A w \in Worker : HandlerOK(w)
  /\ passwords \in [UserID -> SUBSET Entries(Password)]
  /\ profiles \in [UserID -> SUBSET Entries(Profile)]
  /\ given \subseteq auth_tokens

\* What is stored is what the answers sent so far leave possible.  The success of a
\* change or an update tells its client that whatever was over when the request was
\* taken is gone: the stored password is that of the request, of one that was open
\* beside it, or of a later one, however late the answer is sent, and so is every
\* field of the stored profile.  Two updates side by side may leave a mixture of the
\* two, but nothing of what came before both.  An error, which may hide a statement
\* that took effect, and a restart tell nothing.
ClientKnows ==
  \A u \in Users :
    /\ user_credentials[u].password \in Values(passwords[u]) \cup OpenPasswords(u)
    /\ \A f \in Field :
         \E p \in Values(profiles[u]) \cup OpenProfiles(u) :
           user_credentials[u].profile[f] = p[f]

\* A token that was sent in a login response stays good for a reconnect, which
\* compares it with any row of the user it happens to fetch: as long as two
\* workers have not handled logins of that user at once, there is no other row.
GivenTokenWorks ==
  \A u \in Users, t \in Token :
    <<u, t>> \in given /\ u \notin overlapped => TokensOf(u) = {t}

\* No signup takes a checked field of a user who was there when it was taken and
\* who has never changed his profile, however other signups interleave with it.
SignupTakesFree ==
  \A u, v \in Users :
    (u <= user_credentials[v].after /\ ~user_credentials[u].updated) =>
      \A k \in DOMAIN Checked :
        user_credentials[u].profile[Checked[k]] # user_credentials[v].signed_up[Checked[k]]

\* "if successful returns user id else returns error code" (message_handler.cpp):
\* a signup is answered.
SignupAnswered == "signup" \notin silent
==============================================================================
