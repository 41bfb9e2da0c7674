--------------------------- MODULE Accounts_proofs ---------------------------
(***************************************************************************)
(* Accounts for any number of workers, users, fields and keys, with or     *)
(* without failures of the database.                                       *)
(***************************************************************************)
EXTENDS Accounts, TLAPS

USE AccountsAssumption

\* What the request of a worker is made of, by its type.
Kinds(r) ==
  /\ r.type \in {"none", "signup", "login", "change", "update"}
  /\ r.type = "signup" => r.profile \in Profile /\ r.password \in Password /\ r.after \in Nat
  /\ r.type = "login"  => r.username \in Value /\ r.password \in Password
  /\ r.type = "change" => r.user_id \in UserID /\ r.new_password \in Password
  /\ r.type = "update" => r.user_id \in UserID /\ r.profile \in Profile

LEMMA RequestKinds == \A r \in Request(Nat) \cup {NoRequest} : Kinds(r)
  BY DEF Request, SignupRequest, LoginRequest, ChangeRequest, UpdateRequest, NoRequest, Kinds

LEMMA HandlerKinds ==
  ASSUME TypeOK, NEW w \in Worker
  PROVE  /\ Kinds(Asked(w)) /\ Asked(w) \in Request(Nat) \cup {NoRequest}
         /\ handler[w].user \in {0} \cup UserID /\ handler[w].checks \in 0..Len(Checked)
         /\ handler[w].at \in PlacesOf[Asked(w).type]
         /\ At(w, "idle") <=> Asked(w).type = "none"
         /\ handler[w].at \in {"check_exists", "insert_user"} <=> Asked(w).type = "signup"
         /\ handler[w].at \in {"select_user", "select_token", "insert_token"}
              <=> Asked(w).type = "login"
         /\ handler[w].at \in {"select_password", "update_password", "change_password_response"}
              => Asked(w).type = "change"
         /\ handler[w].at \in {"select_profile", "update_profile", "update_profile_response",
                               "get_user_profile"} => Asked(w).type = "update"
         /\ At(w, "error_response") => Caught(w)
         /\ Caught(w) => handler[w].user \in UserID
<1>1. handler[w] \in HandlerState /\ HandlerOK(w)
  BY DEF TypeOK
<1>2. Kinds(Asked(w)) /\ Asked(w) \in Request(Nat) \cup {NoRequest}
  BY <1>1, RequestKinds DEF HandlerState, Asked
<1>3. handler[w].at \in PlacesOf[Asked(w).type]
  BY <1>1 DEF HandlerOK
<1>4. Caught(w) => handler[w].user \in UserID
  BY <1>1, <1>2 DEF HandlerOK, Kinds, Caught
<1>5. QED
  BY <1>1, <1>2, <1>3, <1>4 DEF HandlerState, Kinds, PlacesOf, At, Caught

LEMMA PlacesAre ==
  Places = {"idle", "check_exists", "insert_user", "select_user", "select_token",
            "insert_token", "select_password", "update_password", "change_password_response",
            "select_profile", "update_profile", "update_profile_response", "get_user_profile",
            "error_response"}
  BY DEF Places, PlacesOf

LEMMA IdleOK == Idle \in HandlerState
<1>1. 0 \in 0..Len(Checked) /\ NoRequest \in Request(Nat) \cup {NoRequest}
  OBVIOUS
<1>2. QED
  BY <1>1, PlacesAre DEF Idle, HandlerState

------------------------------------------------------------------------------
(* Type correctness. *)

\* Handlers keep their types if one of them goes on and no user disappears.
LEMMA HandlersOK ==
  ASSUME TypeOK, NEW w \in Worker, NEW h \in HandlerState,
         handler' = [handler EXCEPT ![w] = h],
         Len(user_credentials) \in Nat, Len(user_credentials') \in Nat,
         Users = 1..Len(user_credentials), Users' = 1..Len(user_credentials'),
         Len(user_credentials) <= Len(user_credentials'),
         HandlerOK(w)'
  PROVE  /\ handler' \in [Worker -> HandlerState]
         /\ \A v \in Worker : HandlerOK(v)'
<1>1. handler' \in [Worker -> HandlerState]
  BY DEF TypeOK
<1>2. ASSUME NEW v \in Worker, v # w PROVE HandlerOK(v)'
  <2>1. handler'[v] = handler[v] /\ Users \subseteq Users' /\ HandlerOK(v)
    BY <1>2 DEF TypeOK
  <2>2. QED
    BY <2>1 DEF HandlerOK, Asked, At
<1>3. QED
  BY <1>1, <1>2

LEMMA UsersAre ==
  TypeOK => /\ Users = 1..Len(user_credentials) /\ Len(user_credentials) \in Nat
            /\ Users \subseteq UserID
            /\ \A u \in Users : user_credentials[u] \in UserRow
  BY DEF TypeOK, Users, UserID

\* The parts of TypeOK about the tables and the histories.
TablesOK ==
  /\ user_credentials \in Seq(UserRow) /\ Len(user_credentials) <= MaxUsers
  /\ auth_tokens \subseteq Users \X Token
  /\ passwords \in [UserID -> SUBSET Entries(Password)]
  /\ profiles \in [UserID -> SUBSET Entries(Profile)]
  /\ given \subseteq auth_tokens

\* A handler that ends leaves the types in order, and so does one that goes on to
\* a place where its request can be.
LEMMA EndOK ==
  ASSUME TypeOK, TablesOK', NEW w \in Worker, handler' = [handler EXCEPT ![w] = Idle],
         Len(user_credentials) <= Len(user_credentials')
  PROVE  TypeOK'
<1>1. HandlerOK(w)'
  <2>1. handler'[w] = Idle
    BY DEF TypeOK
  <2>2. QED
    BY <2>1 DEF HandlerOK, Idle, Asked, At, NoRequest, PlacesOf
<1>2. /\ Users = 1..Len(user_credentials) /\ Len(user_credentials) \in Nat
      /\ Users' = 1..Len(user_credentials') /\ Len(user_credentials') \in Nat
  BY DEF TypeOK, TablesOK, Users
<1>3. QED
  BY <1>1, <1>2, IdleOK, HandlersOK DEF TypeOK, TablesOK

LEMMA GoOnOK ==
  ASSUME TypeOK, TablesOK', NEW w \in Worker, NEW h \in HandlerState,
         handler' = [handler EXCEPT ![w] = h], HandlerOK(w)',
         Len(user_credentials) <= Len(user_credentials')
  PROVE  TypeOK'
<1>1. /\ Users = 1..Len(user_credentials) /\ Len(user_credentials) \in Nat
      /\ Users' = 1..Len(user_credentials') /\ Len(user_credentials') \in Nat
  BY DEF TypeOK, TablesOK, Users
<1>2. QED
  BY <1>1, HandlersOK DEF TypeOK, TablesOK

\* It may also find out its user.
LEMMA MoveOK ==
  ASSUME TypeOK, TablesOK', Len(user_credentials) <= Len(user_credentials'),
         NEW w \in Worker, NEW u \in {0} \cup UserID,
         NEW place \in PlacesOf[Asked(w).type] \ {"check_exists", "update_profile"},
         place # "error_response" => u \in Users,
         Asked(w).type # "login" => u = handler[w].user,
         handler' = [handler EXCEPT ![w].at = place, ![w].user = u]
  PROVE  TypeOK'
<1> DEFINE h == [handler[w] EXCEPT !.at = place, !.user = u]
<1>1. handler[w] \in HandlerState /\ Kinds(Asked(w)) /\ HandlerOK(w)
  BY HandlerKinds DEF TypeOK
<1>2. place \in Places
  BY <1>1, PlacesAre DEF PlacesOf, Kinds
<1>3. h \in HandlerState /\ handler' = [handler EXCEPT ![w] = h] /\ handler'[w] = h
  BY <1>1, <1>2 DEF HandlerState, TypeOK
<1>4. h.at = place /\ h.user = u /\ h.request = handler[w].request
  BY <1>1 DEF HandlerState
<1>5. Users \subseteq Users'
  <2>1. /\ Users = 1..Len(user_credentials) /\ Len(user_credentials) \in Nat
        /\ Users' = 1..Len(user_credentials') /\ Len(user_credentials') \in Nat
    BY DEF TypeOK, TablesOK, Users
  <2>2. QED
    BY <2>1
<1>6. HandlerOK(w)'
  BY <1>1, <1>3, <1>4, <1>5 DEF HandlerOK, At, Asked
<1>7. QED
  BY <1>3, <1>6, GoOnOK

LEMMA GotoOK ==
  ASSUME TypeOK, TablesOK', Len(user_credentials) <= Len(user_credentials'), NEW w \in Worker,
         NEW place \in PlacesOf[Asked(w).type] \ {"check_exists", "update_profile"},
         place # "error_response" => handler[w].user \in Users,
         Goto(w, place)
  PROVE  TypeOK'
<1>1. handler[w] \in HandlerState /\ handler[w].user \in {0} \cup UserID
  BY HandlerKinds DEF TypeOK
<1>2. handler' = [handler EXCEPT ![w].at = place, ![w].user = handler[w].user]
  BY <1>1 DEF Goto, HandlerState, TypeOK
<1>3. QED
  BY <1>1, <1>2, MoveOK

LEMMA Ends ==
  ASSUME NEW w \in Worker, Answer(w) \/ NoAnswer(w)
  PROVE  handler' = [handler EXCEPT ![w] = Idle] /\ UNCHANGED overlapped
  BY DEF Answer, NoAnswer

\* A statement that fails ends the handler, or sends it to answer with an error.
LEMMA FailureIs ==
  ASSUME NEW w \in Worker, Failure(w)
  PROVE  /\ UNCHANGED overlapped
         /\ \/ ~Caught(w) /\ handler' = [handler EXCEPT ![w] = Idle]
            \/ Caught(w) /\ handler' = [handler EXCEPT ![w].at = "error_response"]
  BY Ends DEF Failure, Goto

LEMMA FailureOK ==
  ASSUME TypeOK, TablesOK', Len(user_credentials) <= Len(user_credentials'), NEW w \in Worker,
         Failure(w)
  PROVE  TypeOK'
<1>1. CASE Caught(w) /\ Goto(w, "error_response")
  <2>1. "error_response" \in PlacesOf[Asked(w).type] \ {"check_exists", "update_profile"}
    BY <1>1 DEF Caught, PlacesOf
  <2>2. QED
    BY <1>1, <2>1, GotoOK
<1>2. QED
  BY <1>1, Ends, EndOK DEF Failure

\* What the steps of the histories do to their types.
LEMMA EntryTypes ==
  ASSUME NEW S, NEW w \in Worker, NEW entries \in SUBSET Entries(S), NEW v \in S
  PROVE  /\ Entry(v) \in Entries(S)
         /\ Taken(entries, w) \in SUBSET Entries(S)
         /\ Succeeded(entries, v, w) \in SUBSET Entries(S)
         /\ Ended(entries, v, w) \in SUBSET Entries(S)
<1>1. Entry(v) \in Entries(S)
  BY DEF Entry, Entries
<1>2. ASSUME NEW e \in entries
      PROVE  /\ [e EXCEPT !.since = @ \cup {w}] \in Entries(S)
             /\ [e EXCEPT !.since = @ \ {w}] \in Entries(S)
  BY DEF Entries
<1>3. QED
  BY <1>1, <1>2 DEF Taken, Succeeded, Ended

LEMMA OpenTypes ==
  ASSUME TypeOK, NEW u \in UserID
  PROVE  OpenPasswords(u) \subseteq Password /\ OpenProfiles(u) \subseteq Profile
  BY HandlerKinds DEF OpenPasswords, OpenProfiles, Open, Kinds

LEMMA TypeInit == Init => TypeOK
<1> SUFFICES ASSUME Init PROVE TypeOK
  OBVIOUS
<1>1. \A w \in Worker : handler[w] = Idle /\ HandlerOK(w)
  BY DEF Init, HandlerOK, Idle, Asked, At, NoRequest, PlacesOf
<1>2. handler \in [Worker -> HandlerState]
  BY IdleOK DEF Init
<1>3. user_credentials \in Seq(UserRow) /\ Len(user_credentials) <= MaxUsers
  BY DEF Init
<1>4. QED
  BY <1>1, <1>2, <1>3 DEF Init, TypeOK

\* A request is taken.
LEMMA TypeProcess ==
  ASSUME TypeOK, NEW w \in Worker, process(w)
  PROVE  TypeOK'
<1>1. PICK r \in Request({Len(user_credentials)}) :
        LET u == IF r.type \in {"change", "update"} THEN r.user_id ELSE 0
        IN  /\ handler' = [handler EXCEPT ![w] =
                 [Idle EXCEPT !.at = FirstStep(r.type), !.request = r, !.user = u]]
            /\ passwords' = IF r.type = "change"
                 THEN [passwords EXCEPT ![u] = Taken(@, w)] ELSE passwords
            /\ profiles' = IF r.type = "update"
                 THEN [profiles EXCEPT ![u] = Taken(@, w)] ELSE profiles
  BY DEF process
<1> DEFINE u == IF r.type \in {"change", "update"} THEN r.user_id ELSE 0
           h == [Idle EXCEPT !.at = FirstStep(r.type), !.request = r, !.user = u]
<1>2. r \in Request(Nat) /\ Kinds(r) /\ r.type # "none"
  <2>1. Len(user_credentials) \in Nat
    BY DEF TypeOK
  <2>2. r \in Request(Nat) /\ r.type # "none"
    BY <2>1 DEF Request, SignupRequest, LoginRequest, ChangeRequest, UpdateRequest
  <2>3. QED
    BY <2>2, RequestKinds
<1>3. FirstStep(r.type) \in PlacesOf[r.type] /\ FirstStep(r.type) \in Places
  BY <1>2, PlacesAre DEF FirstStep, PlacesOf, Kinds
<1>4. u \in {0} \cup UserID
  BY <1>2 DEF Kinds
<1>5. h \in HandlerState
  BY <1>2, <1>3, <1>4, IdleOK DEF HandlerState, Idle
<1>6. HandlerOK(w)'
  <2>1. handler'[w] = h /\ h.at = FirstStep(r.type) /\ h.request = r /\ h.user = u /\ h.checks = 0
    BY <1>1 DEF TypeOK, Idle
  <2>2. Len(Checked) > 0
    OBVIOUS
  <2>3. h.at \in {"check_exists", "select_user", "select_password", "select_profile"}
    BY <1>2, <2>1 DEF FirstStep, Kinds
  <2>4. QED
    BY <1>2, <1>3, <2>1, <2>2, <2>3 DEF HandlerOK, Asked, At
<1>7. TablesOK'
  <2>1. passwords' \in [UserID -> SUBSET Entries(Password)]
    <3>1. r.type = "change" =>
            u \in UserID /\ Taken(passwords[u], w) \in SUBSET Entries(Password)
      BY <1>2, EntryTypes DEF TypeOK, Kinds
    <3>2. QED
      BY <1>1, <3>1 DEF TypeOK
  <2>2. profiles' \in [UserID -> SUBSET Entries(Profile)]
    <3>1. r.type = "update" =>
            u \in UserID /\ Taken(profiles[u], w) \in SUBSET Entries(Profile)
      BY <1>2, EntryTypes DEF TypeOK, Kinds
    <3>2. QED
      BY <1>1, <3>1 DEF TypeOK
  <2>3. QED
    BY <2>1, <2>2 DEF TypeOK, TablesOK, process, tables, Users
<1>8. UNCHANGED user_credentials /\ Len(user_credentials) <= Len(user_credentials')
  BY DEF process, tables, TypeOK
<1>9. QED
  BY <1>1, <1>5, <1>6, <1>7, <1>8, GoOnOK

\* The statements of a signup.
LEMMA TypeSignup ==
  ASSUME TypeOK, NEW w \in Worker, check_exists(w) \/ insert_user(w)
  PROVE  TypeOK'
<1>0. /\ Kinds(Asked(w)) /\ handler[w] \in HandlerState
      /\ Users = 1..Len(user_credentials) /\ Len(user_credentials) \in Nat
  BY HandlerKinds, UsersAre DEF TypeOK
<1>1. CASE check_exists(w)
  <2> DEFINE k == handler[w].checks + 1
             at == IF k = Len(Checked) THEN "insert_user" ELSE handler[w].at
             h == [handler[w] EXCEPT !.checks = k, !.at = at]
  <2>1. /\ TablesOK' /\ UNCHANGED user_credentials
        /\ Len(user_credentials) <= Len(user_credentials')
    BY <1>0, <1>1 DEF check_exists, check_exists_Body, TypeOK, TablesOK, tables, clients, Users
  <2>2. CASE Answer(w)
    BY <1>0, <2>1, <2>2, EndOK, Ends
  <2>3. CASE handler' = [handler EXCEPT ![w] = h]
    <3>1. handler[w].at = "check_exists" /\ Asked(w).type = "signup"
      BY <1>1, HandlerKinds DEF check_exists, check_exists_Body, At
    <3>2. handler[w].checks \in Nat /\ handler[w].checks < Len(Checked) /\ Len(Checked) \in Nat
      BY <3>1 DEF TypeOK, HandlerOK, At, HandlerState
    <3>3. h \in HandlerState /\ handler'[w] = h
      <4>1. k \in 0..Len(Checked) /\ at \in Places
        BY <3>1, <3>2, PlacesAre
      <4>2. h \in HandlerState
        BY <1>0, <4>1 DEF HandlerState
      <4>3. handler'[w] = h
        BY <2>3 DEF TypeOK
      <4>4. QED
        BY <4>2, <4>3
    <3>4. /\ h.at = at /\ at \in {"check_exists", "insert_user"} /\ h.request = handler[w].request
          /\ h.checks = k
      BY <1>0, <3>1 DEF HandlerState
    <3>5. at = "check_exists" => k < Len(Checked)
      BY <3>2
    <3>6. HandlerOK(w)'
      BY <3>1, <3>3, <3>4, <3>5 DEF HandlerOK, At, Asked, PlacesOf
    <3>7. QED
      BY <2>1, <2>3, <3>3, <3>6, GoOnOK
  <2>4. QED
    BY <1>0, <1>1, <2>2, <2>3 DEF check_exists, check_exists_Body, TypeOK
<1>2. CASE insert_user(w)
  <2> DEFINE row == [profile |-> Asked(w).profile, password |-> Asked(w).password,
                     after |-> Asked(w).after, signed_up |-> Asked(w).profile,
                     updated |-> FALSE]
             u == Len(user_credentials) + 1
  <2>1. row \in UserRow
    BY <1>0, <1>2, HandlerKinds DEF insert_user, At, Kinds, UserRow
  <2>2. CASE UNCHANGED <<user_credentials, passwords, profiles>> /\ NoAnswer(w)
    <3>1. TablesOK'
      BY <1>2, <2>2 DEF insert_user, TypeOK, TablesOK, Users
    <3>2. QED
      BY <1>0, <2>2, <3>1, EndOK, Ends
  <2>3. CASE /\ u \in UserID
             /\ user_credentials' = Append(user_credentials, row)
             /\ passwords' = [passwords EXCEPT ![u] = {Entry(row.password)}]
             /\ profiles' = [profiles EXCEPT ![u] = {Entry(row.profile)}]
             /\ Answer(w) \/ Failure(w)
    <3>1. /\ user_credentials' \in Seq(UserRow)
          /\ Len(user_credentials') = u /\ u <= MaxUsers
          /\ Users' = 1..u
      BY <1>0, <2>1, <2>3 DEF TypeOK, Users, UserID
    <3>2. Users \subseteq Users' /\ Len(user_credentials) <= Len(user_credentials')
      BY <1>0, <3>1
    <3>3. /\ passwords' \in [UserID -> SUBSET Entries(Password)]
          /\ profiles' \in [UserID -> SUBSET Entries(Profile)]
      <4>1. Entry(row.password) \in Entries(Password) /\ Entry(row.profile) \in Entries(Profile)
        BY <2>1 DEF UserRow, Entry, Entries
      <4>2. QED
        BY <2>3, <4>1 DEF TypeOK
    <3>4. TablesOK'
      BY <1>0, <1>2, <3>1, <3>2, <3>3 DEF insert_user, TypeOK, TablesOK
    <3>5. CASE Answer(w)
      BY <3>2, <3>4, <3>5, EndOK, Ends
    <3>6. CASE Failure(w)
      BY <3>2, <3>4, <3>6, FailureOK
    <3>7. QED
      BY <2>3, <3>5, <3>6
  <2>4. QED
    BY <1>2, <2>2, <2>3 DEF insert_user
<1>3. QED
  BY <1>1, <1>2

\* The statements of a login.
LEMMA TypeLogin ==
  ASSUME TypeOK, NEW w \in Worker, select_user(w) \/ select_token(w) \/ insert_token(w)
  PROVE  TypeOK'
<1>0. /\ Kinds(Asked(w)) /\ handler[w] \in HandlerState
      /\ Users = 1..Len(user_credentials) /\ Len(user_credentials) \in Nat
      /\ Asked(w).type = "login"
  BY HandlerKinds, UsersAre DEF TypeOK, select_user, select_token, select_token_Body, insert_token, At
<1>1. CASE select_user(w)
  <2>1. /\ TablesOK' /\ UNCHANGED user_credentials
        /\ Len(user_credentials) <= Len(user_credentials')
    BY <1>0, <1>1 DEF select_user, TypeOK, TablesOK, tables, clients, Users
  <2>2. CASE Answer(w)
    BY <1>0, <2>1, <2>2, EndOK, Ends
  <2>3. ASSUME NEW u \in Holders("username", Asked(w).username),
               handler' = [handler EXCEPT ![w].at = "select_token", ![w].user = u]
        PROVE  TypeOK'
    <3>1. "select_token" \in PlacesOf[Asked(w).type] \ {"check_exists", "update_profile"} /\ u \in Users
      BY <1>0 DEF Holders, PlacesOf
    <3>2. QED
      BY <1>0, <2>1, <2>3, <3>1, UsersAre, MoveOK
  <2>4. QED
    BY <1>1, <2>2, <2>3 DEF select_user
<1>2. CASE select_token(w)
  <2> DEFINE u == handler[w].user
  <2>1. u \in Users
    BY <1>2 DEF select_token, select_token_Body, At, TypeOK, HandlerOK
  <2>2. TablesOK' /\ UNCHANGED user_credentials
    BY <1>2, <2>1 DEF select_token, select_token_Body, TypeOK, TablesOK, tables, Users, Give, TokensOf
  <2>3. CASE Answer(w)
    BY <1>0, <2>2, <2>3, EndOK, Ends
  <2>4. CASE Goto(w, "insert_token")
    <3>1. "insert_token" \in PlacesOf[Asked(w).type] \ {"check_exists", "update_profile"}
      BY <1>0 DEF PlacesOf
    <3>2. QED
      BY <1>0, <2>1, <2>2, <2>4, <3>1, GotoOK
  <2>5. QED
    BY <1>2, <2>3, <2>4 DEF select_token, select_token_Body
<1>3. CASE insert_token(w)
  <2>1. handler[w].user \in Users
    BY <1>3 DEF insert_token, At, TypeOK, HandlerOK
  <2>2. TablesOK' /\ UNCHANGED user_credentials
    BY <1>3, <2>1 DEF insert_token, TypeOK, TablesOK, Users, Give
  <2>3. Len(user_credentials) <= Len(user_credentials')
    BY <1>0, <2>2
  <2>4. Answer(w) \/ Failure(w)
    BY <1>3 DEF insert_token
  <2>5. QED
    BY <2>2, <2>3, <2>4, EndOK, Ends, FailureOK
<1>4. QED
  BY <1>1, <1>2, <1>3

\* The statements of a change of the password, and its answer.
LEMMA TypeChange ==
  ASSUME TypeOK, NEW w \in Worker,
         select_password(w) \/ update_password(w) \/ change_password_response(w)
  PROVE  TypeOK'
<1> DEFINE u == handler[w].user
           p == Asked(w).new_password
<1>0. /\ Kinds(Asked(w)) /\ handler[w] \in HandlerState
      /\ Users = 1..Len(user_credentials) /\ Len(user_credentials) \in Nat
      /\ Asked(w).type = "change" /\ p \in Password /\ u \in UserID
      /\ {"update_password", "change_password_response", "error_response"}
           \subseteq PlacesOf[Asked(w).type] \ {"check_exists", "update_profile"}
  <2>1. handler[w].at \in {"select_password", "update_password", "change_password_response"}
    BY DEF select_password, update_password, change_password_response, At
  <2>2. Asked(w).type = "change" /\ Kinds(Asked(w)) /\ HandlerOK(w) /\ handler[w] \in HandlerState
    BY <2>1, HandlerKinds DEF TypeOK
  <2>3. QED
    BY <2>2, UsersAre DEF Kinds, HandlerOK, PlacesOf
<1>1. CASE select_password(w)
  <2>1. TablesOK' /\ Len(user_credentials) <= Len(user_credentials')
    BY <1>0, <1>1 DEF select_password, TypeOK, TablesOK, tables, clients, Users
  <2>2. \/ Goto(w, "error_response")
        \/ Goto(w, "update_password") /\ u \in Users
        \/ Goto(w, "change_password_response") /\ u \in Users
    BY <1>1 DEF select_password
  <2>3. QED
    BY <1>0, <2>1, <2>2, GotoOK
<1>2. CASE update_password(w)
  <2>1. u \in Users
    BY <1>2 DEF update_password, At, TypeOK, HandlerOK
  <2>2. user_credentials' \in Seq(UserRow) /\ Len(user_credentials') = Len(user_credentials)
    <3>1. user_credentials' = [user_credentials EXCEPT ![u] =
                                 [user_credentials[u] EXCEPT !.password = p]]
      BY <1>2 DEF update_password
    <3>2. [user_credentials[u] EXCEPT !.password = p] \in UserRow
      BY <1>0, <2>1, UsersAre DEF UserRow
    <3>3. QED
      BY <1>0, <2>1, <3>1, <3>2 DEF TypeOK
  <2>3. Users' = Users
    BY <1>0, <2>2 DEF Users
  <2>4. TablesOK' /\ Len(user_credentials) <= Len(user_credentials')
    BY <1>0, <1>2, <2>2, <2>3 DEF update_password, clients, TypeOK, TablesOK
  <2>5. Goto(w, "change_password_response") \/ Failure(w)
    BY <1>2 DEF update_password
  <2>6. QED
    BY <1>0, <2>1, <2>4, <2>5, GotoOK, FailureOK
<1>3. CASE change_password_response(w)
  <2>1. passwords' \in [UserID -> SUBSET Entries(Password)]
    <3>1. Succeeded(passwords[u], p, w) \in SUBSET Entries(Password)
      BY <1>0, EntryTypes DEF TypeOK
    <3>2. QED
      BY <1>3, <3>1 DEF change_password_response, TypeOK
  <2>2. TablesOK' /\ Len(user_credentials) <= Len(user_credentials')
    BY <1>0, <1>3, <2>1 DEF change_password_response, TypeOK, TablesOK, tables, Users
  <2>3. QED
    BY <1>3, <2>2, EndOK, Ends DEF change_password_response
<1>4. QED
  BY <1>1, <1>2, <1>3

\* The fields that differ are set: the row keeps its type.
LEMMA UpdatedType ==
  ASSUME NEW profile \in Profile, NEW read, NEW asked \in Profile
  PROVE  Updated(profile, read, asked) \in Profile
  BY DEF Updated, Profile

\* The row that update_profile leaves.
UpdatedRow(w) ==
  LET row == user_credentials[handler[w].user]
  IN  [row EXCEPT !.profile = Updated(@, handler[w].read, Asked(w).profile),
                  !.updated = @ \/ Asked(w).profile # handler[w].read]

\* The statements of an update of the profile, and its answer.
LEMMA TypeUpdate ==
  ASSUME TypeOK, NEW w \in Worker,
         \/ select_profile(w) \/ update_profile(w) \/ update_profile_response(w)
         \/ get_user_profile(w)
  PROVE  TypeOK'
<1> DEFINE u == handler[w].user
           p == Asked(w).profile
<1>0. /\ Kinds(Asked(w)) /\ handler[w] \in HandlerState
      /\ Users = 1..Len(user_credentials) /\ Len(user_credentials) \in Nat
      /\ Asked(w).type = "update" /\ p \in Profile /\ u \in UserID
      /\ {"update_profile_response", "get_user_profile", "error_response"}
           \subseteq PlacesOf[Asked(w).type] \ {"check_exists", "update_profile"}
  <2>1. handler[w].at \in {"select_profile", "update_profile", "update_profile_response",
                           "get_user_profile"}
    BY DEF select_profile, update_profile, update_profile_response, get_user_profile, At
  <2>2. Asked(w).type = "update" /\ Kinds(Asked(w)) /\ HandlerOK(w) /\ handler[w] \in HandlerState
    BY <2>1, HandlerKinds DEF TypeOK
  <2>3. QED
    BY <2>2, UsersAre DEF Kinds, HandlerOK, PlacesOf
<1>1. CASE select_profile(w)
  <2> DEFINE h == [handler[w] EXCEPT !.at = "update_profile",
                                     !.read = user_credentials[u].profile]
  <2>1. /\ TablesOK' /\ UNCHANGED user_credentials
        /\ Len(user_credentials) <= Len(user_credentials')
    BY <1>0, <1>1 DEF select_profile, TypeOK, TablesOK, tables, clients, Users
  <2>2. CASE NoAnswer(w)
    BY <2>1, <2>2, EndOK, Ends
  <2>3. CASE u \in Users /\ handler' = [handler EXCEPT ![w] = h]
    <3>1. user_credentials[u].profile \in Profile
      BY <2>3, UsersAre DEF UserRow
    <3>2. h \in HandlerState /\ handler'[w] = h
      BY <1>0, <2>3, <3>1, PlacesAre DEF HandlerState, TypeOK
    <3>3. /\ h.at = "update_profile" /\ h.user = u /\ h.request = handler[w].request
          /\ h.read \in Profile
      BY <1>0, <3>1 DEF HandlerState
    <3>4. Users' = Users /\ HandlerOK(w)
      BY <2>1 DEF Users, TypeOK
    <3>5. HandlerOK(w)'
      BY <1>0, <2>3, <3>2, <3>3, <3>4 DEF HandlerOK, At, Asked, PlacesOf
    <3>6. QED
      BY <2>1, <2>3, <3>2, <3>5, GoOnOK
  <2>4. QED
    BY <1>0, <1>1, <2>2, <2>3 DEF select_profile, TypeOK
<1>2. CASE update_profile(w)
  <2>1. u \in Users
    BY <1>2 DEF update_profile, At, TypeOK, HandlerOK
  <2>2. CASE Failure(w) /\ UNCHANGED user_credentials
    <3>1. TablesOK' /\ Len(user_credentials) <= Len(user_credentials')
      BY <1>0, <1>2, <2>2 DEF update_profile, clients, TypeOK, TablesOK, Users
    <3>2. QED
      BY <2>2, <3>1, FailureOK
  <2>3. CASE /\ user_credentials' = [user_credentials EXCEPT ![u] = UpdatedRow(w)]
             /\ Goto(w, "update_profile_response") \/ Failure(w)
    <3>1. UpdatedRow(w) \in UserRow
      <4>1. user_credentials[u] \in UserRow
        BY <2>1, UsersAre
      <4>2. Updated(user_credentials[u].profile, handler[w].read, p) \in Profile
        BY <1>0, <4>1, UpdatedType DEF UserRow
      <4>3. QED
        BY <4>1, <4>2 DEF UserRow, UpdatedRow
    <3>2. user_credentials' \in Seq(UserRow) /\ Len(user_credentials') = Len(user_credentials)
      BY <1>0, <2>1, <2>3, <3>1 DEF TypeOK
    <3>3. Users' = Users
      BY <1>0, <3>2 DEF Users
    <3>4. TablesOK' /\ Len(user_credentials) <= Len(user_credentials')
      BY <1>0, <1>2, <3>2, <3>3 DEF update_profile, clients, TypeOK, TablesOK
    <3>5. QED
      BY <1>0, <2>1, <2>3, <3>4, GotoOK, FailureOK
  <2>4. QED
    BY <1>2, <2>2, <2>3 DEF update_profile, UpdatedRow
<1>3. CASE update_profile_response(w)
  <2>1. u \in Users
    BY <1>3 DEF update_profile_response, At, TypeOK, HandlerOK
  <2>2. profiles' \in [UserID -> SUBSET Entries(Profile)]
    <3>1. Succeeded(profiles[u], p, w) \in SUBSET Entries(Profile)
      BY <1>0, EntryTypes DEF TypeOK
    <3>2. QED
      BY <1>3, <3>1 DEF update_profile_response, TypeOK
  <2>3. TablesOK' /\ Len(user_credentials) <= Len(user_credentials')
    BY <1>0, <1>3, <2>2 DEF update_profile_response, TypeOK, TablesOK, tables, Users
  <2>4. QED
    BY <1>0, <1>3, <2>1, <2>3, GotoOK DEF update_profile_response
<1>4. CASE get_user_profile(w)
  <2>1. TablesOK' /\ Len(user_credentials) <= Len(user_credentials')
    BY <1>0, <1>4 DEF get_user_profile, TypeOK, TablesOK, tables, clients, Users
  <2>2. QED
    BY <1>4, <2>1, EndOK, Ends DEF get_user_profile
<1>5. QED
  BY <1>1, <1>2, <1>3, <1>4

\* An error is answered, or a statement fails.
LEMMA TypeError ==
  ASSUME TypeOK, NEW w \in Worker, error_response(w)
  PROVE  TypeOK'
<1> DEFINE u == handler[w].user
<1>1. /\ u \in UserID /\ Kinds(Asked(w))
  BY HandlerKinds DEF error_response
<1>2. passwords' \in [UserID -> SUBSET Entries(Password)]
  <2>1. Asked(w).type = "change" =>
          Ended(passwords[u], Asked(w).new_password, w) \in SUBSET Entries(Password)
    BY <1>1, EntryTypes DEF TypeOK, Kinds
  <2>2. QED
    BY <1>1, <2>1 DEF error_response, EndedUnknown, TypeOK
<1>3. profiles' \in [UserID -> SUBSET Entries(Profile)]
  <2>1. Asked(w).type = "update" =>
          Ended(profiles[u], Asked(w).profile, w) \in SUBSET Entries(Profile)
    BY <1>1, EntryTypes DEF TypeOK, Kinds
  <2>2. QED
    BY <1>1, <2>1 DEF error_response, EndedUnknown, TypeOK
<1>4. TablesOK' /\ Len(user_credentials) <= Len(user_credentials')
  BY <1>2, <1>3 DEF error_response, TypeOK, TablesOK, tables, Users
<1>5. QED
  BY <1>4, EndOK, Ends DEF error_response

LEMMA TypeFail ==
  ASSUME TypeOK, NEW w \in Worker, fail(w)
  PROVE  TypeOK'
<1>1. TablesOK' /\ UNCHANGED user_credentials
  BY DEF fail, tables, clients, TypeOK, TablesOK, Users
<1>2. Len(user_credentials) <= Len(user_credentials')
  BY <1>1, UsersAre
<1>3. QED
  BY <1>1, <1>2, FailureOK DEF fail

LEMMA TypeExit ==
  ASSUME TypeOK, exit
  PROVE  TypeOK'
<1>1. \A w \in Worker : handler'[w] = Idle
  BY DEF exit
<1>2. \A w \in Worker : HandlerOK(w)'
  BY <1>1 DEF HandlerOK, Idle, Asked, At, NoRequest, PlacesOf
<1>3. handler' \in [Worker -> HandlerState]
  BY IdleOK DEF exit
<1>4. passwords' \in [UserID -> SUBSET Entries(Password)]
  <2>1. \A u \in UserID : \A v \in Values(passwords[u]) \cup OpenPasswords(u) : v \in Password
    BY OpenTypes DEF Values, Entries, TypeOK
  <2>2. QED
    BY <2>1 DEF exit, Entry, Entries
<1>5. profiles' \in [UserID -> SUBSET Entries(Profile)]
  <2>1. \A u \in UserID : \A v \in Values(profiles[u]) \cup OpenProfiles(u) : v \in Profile
    BY OpenTypes DEF Values, Entries, TypeOK
  <2>2. QED
    BY <2>1 DEF exit, Entry, Entries
<1>6. QED
  BY <1>2, <1>3, <1>4, <1>5 DEF exit, tables, TypeOK, Users

LEMMA TypeNext == TypeOK /\ [Next]_vars => TypeOK'
<1> SUFFICES ASSUME TypeOK, [Next]_vars
             PROVE  TypeOK'
  OBVIOUS
<1>1. CASE exit
  BY <1>1, TypeExit
<1>2. ASSUME NEW w \in Worker, Handle(w)
      PROVE  TypeOK'
  BY <1>2, TypeProcess, TypeSignup, TypeLogin, TypeChange, TypeUpdate, TypeError,
     TypeFail DEF Handle
<1>3. CASE UNCHANGED vars
  BY <1>3 DEF vars, tables, clients, TypeOK, Users, HandlerOK, At, Asked
<1>4. QED
  BY <1>1, <1>2, <1>3 DEF Next

\* Rows, histories and handlers keep their types, and a handler that writes to
\* the row of a user or gives him a token has found him in the table.
THEOREM TypeCorrect == Spec => []TypeOK
  BY TypeInit, TypeNext, PTL DEF Spec

------------------------------------------------------------------------------
(* What a step leaves as it is. *)

\* The other handlers are left alone; w ends or keeps its request, and also its
\* user, whom only a login finds out on the way.
Frame(w) ==
  /\ \A v \in Worker \ {w} : handler'[v] = handler[v]
  /\ \/ handler'[w] = Idle
     \/ /\ handler'[w].request = handler[w].request
        /\ handler[w].at # "select_user" => handler'[w].user = handler[w].user

\* Only the query before it brings a handler to insert_token or update_profile.
LEMMA WhoGoesOn ==
  ASSUME TypeOK, NEW w \in Worker, Handle(w), ~process(w)
  PROVE  /\ handler'[w].at = "insert_token" => select_token(w) \/ insert_token(w)
         /\ handler'[w].at = "update_profile" => select_profile(w)
<1>1. handler \in [Worker -> HandlerState]
  BY DEF TypeOK
<1>2. CASE \/ handler' = [handler EXCEPT ![w] = Idle]
            \/ handler'[w].at \notin {"insert_token", "update_profile"}
  BY <1>1, <1>2 DEF Idle
<1>3. ASSUME Answer(w) \/ NoAnswer(w) \/ Failure(w)
      PROVE  \/ handler' = [handler EXCEPT ![w] = Idle]
             \/ handler'[w].at \notin {"insert_token", "update_profile"}
  BY <1>1, <1>3, Ends, FailureIs DEF HandlerState
<1>4. ASSUME NEW place, Goto(w, place)
      PROVE  handler'[w].at = place
  BY <1>1, <1>4 DEF Goto, HandlerState
<1>5. CASE check_exists(w)
  BY <1>1, <1>2, <1>3, <1>5 DEF check_exists, check_exists_Body, At, HandlerState
<1>6. CASE insert_user(w) \/ fail(w) \/ get_user_profile(w) \/ error_response(w)
          \/ change_password_response(w)
  BY <1>2, <1>3, <1>6 DEF insert_user, fail, get_user_profile, error_response,
     change_password_response
<1>7. CASE select_user(w)
  <2>1. Answer(w) \/ handler'[w].at = "select_token"
    BY <1>1, <1>7 DEF select_user, HandlerState
  <2>2. QED
    BY <1>2, <1>3, <2>1
<1>8. CASE select_password(w) \/ update_password(w) \/ update_profile(w) \/ update_profile_response(w)
  <2>1. Failure(w) \/ Goto(w, "error_response") \/ Goto(w, "change_password_response")
          \/ Goto(w, "update_password") \/ Goto(w, "update_profile_response")
          \/ Goto(w, "get_user_profile")
    BY <1>8 DEF select_password, update_password, update_profile, update_profile_response
  <2>2. QED
    BY <1>2, <1>3, <1>4, <2>1
<1>9. CASE select_token(w) \/ insert_token(w)
  <2>1. Answer(w) \/ Failure(w) \/ Goto(w, "insert_token")
    BY <1>9 DEF select_token, select_token_Body, insert_token
  <2>2. QED
    BY <1>2, <1>3, <1>4, <1>9, <2>1
<1>10. CASE select_profile(w)
  <2>1. NoAnswer(w) \/ handler'[w].at = "update_profile"
    BY <1>1, <1>10 DEF select_profile, HandlerState
  <2>2. QED
    BY <1>2, <1>3, <1>10, <2>1
<1>11. QED
  BY <1>5, <1>6, <1>7, <1>8, <1>9, <1>10 DEF Handle

LEMMA StepFrame ==
  ASSUME TypeOK, NEW w \in Worker, Handle(w), ~process(w)
  PROVE  Frame(w)
<1>1. handler \in [Worker -> HandlerState] /\ handler[w] \in HandlerState
  BY DEF TypeOK
<1>2. ASSUME Answer(w) \/ NoAnswer(w) \/ Failure(w)
      PROVE  Frame(w)
  BY <1>1, <1>2, Ends, FailureIs DEF Frame, HandlerState
<1>3. ASSUME NEW place, Goto(w, place)
      PROVE  Frame(w)
  BY <1>1, <1>3 DEF Goto, Frame, HandlerState
<1>4. CASE check_exists(w)
  BY <1>1, <1>2, <1>4 DEF check_exists, check_exists_Body, Frame, HandlerState
<1>5. CASE insert_user(w) \/ insert_token(w) \/ change_password_response(w) \/ get_user_profile(w)
          \/ error_response(w) \/ fail(w)
  BY <1>2, <1>5 DEF insert_user, insert_token, change_password_response, get_user_profile,
     error_response, fail
<1>6. CASE select_user(w)
  BY <1>1, <1>2, <1>6 DEF select_user, Frame, HandlerState, At
<1>7. CASE select_token(w) \/ select_password(w) \/ update_password(w) \/ update_profile(w)
          \/ update_profile_response(w)
  <2>1. Answer(w) \/ Failure(w) \/ \E place : Goto(w, place)
    BY <1>7 DEF select_token, select_token_Body, select_password, update_password,
       update_profile, update_profile_response
  <2>2. QED
    BY <1>2, <1>3, <2>1
<1>8. CASE select_profile(w)
  BY <1>1, <1>2, <1>8 DEF select_profile, Frame, HandlerState
<1>9. QED
  BY <1>4, <1>5, <1>6, <1>7, <1>8 DEF Handle

\* The steps that change nothing in the tables and what clients expect of them.
Quiet(w) ==
  check_exists(w) \/ select_user(w) \/ select_token(w) \/ insert_token(w)
    \/ select_password(w) \/ select_profile(w) \/ get_user_profile(w) \/ fail(w)

LEMMA QuietStep ==
  ASSUME NEW w \in Worker, Quiet(w)
  PROVE  UNCHANGED <<user_credentials, passwords, profiles>>
  BY DEF Quiet, check_exists, check_exists_Body, select_user, select_token, select_token_Body,
         insert_token, select_password, select_profile, get_user_profile, fail, tables, clients

\* A signup that is stored adds a row at the end.
NewRow(w) ==
  [profile |-> Asked(w).profile, password |-> Asked(w).password, after |-> Asked(w).after,
   signed_up |-> Asked(w).profile, updated |-> FALSE]

LEMMA InsertStep ==
  ASSUME TypeOK, NEW w \in Worker, insert_user(w), user_credentials' # user_credentials
  PROVE  LET u == Len(user_credentials) + 1
         IN  /\ u \in UserID /\ Users' = Users \cup {u} /\ u \notin Users
             /\ user_credentials'[u] = NewRow(w)
             /\ \A v \in Users : user_credentials'[v] = user_credentials[v]
             /\ passwords' = [passwords EXCEPT ![u] = {Entry(Asked(w).password)}]
             /\ profiles' = [profiles EXCEPT ![u] = {Entry(Asked(w).profile)}]
             /\ NewRow(w) \in UserRow
<1> DEFINE u == Len(user_credentials) + 1
<1>1. /\ u \in UserID /\ user_credentials' = Append(user_credentials, NewRow(w))
      /\ passwords' = [passwords EXCEPT ![u] = {Entry(Asked(w).password)}]
      /\ profiles' = [profiles EXCEPT ![u] = {Entry(Asked(w).profile)}]
  BY DEF insert_user, NewRow
<1>2. Kinds(Asked(w)) /\ Asked(w).type = "signup"
  BY HandlerKinds DEF insert_user, At
<1>3. NewRow(w) \in UserRow
  BY <1>2 DEF Kinds, NewRow, UserRow
<1>4. /\ Users = 1..Len(user_credentials) /\ Len(user_credentials) \in Nat
      /\ user_credentials \in Seq(UserRow)
  BY UsersAre DEF TypeOK
<1>5. Len(user_credentials') = u /\ Users' = 1..u
  <2>1. user_credentials' \in Seq(UserRow) /\ Len(user_credentials') = u
    BY <1>1, <1>3, <1>4
  <2>2. QED
    BY <2>1 DEF Users
<1>6. QED
  BY <1>1, <1>3, <1>4, <1>5

------------------------------------------------------------------------------
(* Histories. *)

\* A request is taken.
LEMMA ProcessStep ==
  ASSUME TypeOK, NEW w \in Worker, process(w)
  PROVE  /\ \A v \in Worker \ {w} : handler'[v] = handler[v]
         /\ Users' = Users /\ user_credentials' = user_credentials
         /\ handler'[w].at \in {"check_exists", "select_user", "select_password",
                               "select_profile"}
         /\ handler'[w].checks = 0
         /\ Asked(w).type = "none"
         /\ Asked(w)'.type = "signup" => Asked(w)'.after = Len(user_credentials)
         /\ handler'[w].user \in UserID => Asked(w)'.type \in {"change", "update"}
         /\ UNCHANGED overlapped
         /\ \A u \in UserID :
              /\ passwords'[u] = passwords[u] \/ passwords'[u] = Taken(passwords[u], w)
              /\ profiles'[u] = profiles[u] \/ profiles'[u] = Taken(profiles[u], w)
<1>1. PICK r \in Request({Len(user_credentials)}) :
        LET u == IF r.type \in {"change", "update"} THEN r.user_id ELSE 0
        IN  /\ handler' = [handler EXCEPT ![w] =
                 [Idle EXCEPT !.at = FirstStep(r.type), !.request = r, !.user = u]]
            /\ passwords' = IF r.type = "change"
                 THEN [passwords EXCEPT ![u] = Taken(@, w)] ELSE passwords
            /\ profiles' = IF r.type = "update"
                 THEN [profiles EXCEPT ![u] = Taken(@, w)] ELSE profiles
  BY DEF process
<1> DEFINE u == IF r.type \in {"change", "update"} THEN r.user_id ELSE 0
           h == [Idle EXCEPT !.at = FirstStep(r.type), !.request = r, !.user = u]
<1>2. handler'[w] = h /\ \A v \in Worker \ {w} : handler'[v] = handler[v]
  BY <1>1 DEF TypeOK
<1>3. /\ h.at = FirstStep(r.type) /\ h.request = r /\ h.user = u /\ h.checks = 0
  BY DEF Idle
<1>4. /\ r.type \in {"signup", "login", "change", "update"}
      /\ r.type = "signup" => r.after = Len(user_credentials)
  BY DEF Request, SignupRequest, LoginRequest, ChangeRequest, UpdateRequest
<1>5. FirstStep(r.type) \in {"check_exists", "select_user", "select_password", "select_profile"}
  BY <1>4 DEF FirstStep
<1>6. 0 \notin UserID
  BY DEF UserID
<1>7. Asked(w)' = r /\ handler'[w].user = u /\ Asked(w).type = "none"
  BY <1>2, <1>3, HandlerKinds DEF Asked, process
<1>8. user_credentials' = user_credentials /\ Users' = Users /\ UNCHANGED overlapped
  BY DEF process, tables, Users
<1>9. ASSUME NEW x \in UserID
      PROVE  /\ passwords'[x] = passwords[x] \/ passwords'[x] = Taken(passwords[x], w)
             /\ profiles'[x] = profiles[x] \/ profiles'[x] = Taken(profiles[x], w)
  BY <1>1 DEF TypeOK
<1>10. handler'[w].at \in {"check_exists", "select_user", "select_password", "select_profile"}
       /\ handler'[w].checks = 0
  BY <1>2, <1>3, <1>5
<1>11. handler'[w].user \in UserID => r.type \in {"change", "update"}
  BY <1>2, <1>3, <1>6
<1> HIDE DEF u, h
<1>12. QED
  BY <1>2, <1>4, <1>7, <1>8, <1>9, <1>10, <1>11

\* An entry outlives the step of w, and as much of the other workers with it,
\* unless w succeeds and has taken its request since.
Outlives(e, entries, w) ==
  \E d \in entries : d.value = e.value /\ d.since \subseteq e.since \cup {w}

LEMMA EntriesOutlive ==
  ASSUME NEW S, NEW w \in Worker, NEW entries \in SUBSET Entries(S), NEW v, NEW e \in entries
  PROVE  /\ Outlives(e, entries, w) /\ Outlives(e, Taken(entries, w), w)
         /\ Outlives(e, Ended(entries, v, w), w)
         /\ w \notin e.since => Outlives(e, Succeeded(entries, v, w), w)
<1>1. e \in Entries(S)
  OBVIOUS
<1>2. /\ [e EXCEPT !.since = @ \cup {w}].value = e.value
      /\ [e EXCEPT !.since = @ \cup {w}].since = e.since \cup {w}
      /\ [e EXCEPT !.since = @ \ {w}].value = e.value
      /\ [e EXCEPT !.since = @ \ {w}].since = e.since \ {w}
  BY <1>1 DEF Entries
<1>3. Outlives(e, entries, w) /\ (w \notin e.since => Outlives(e, Succeeded(entries, v, w), w))
  BY DEF Outlives, Succeeded
<1>4. Outlives(e, Taken(entries, w), w)
  <2>1. [e EXCEPT !.since = @ \cup {w}] \in Taken(entries, w)
    BY DEF Taken
  <2>2. QED
    BY <1>2, <2>1 DEF Outlives
<1>5. Outlives(e, Ended(entries, v, w), w)
  <2>1. [e EXCEPT !.since = @ \ {w}] \in Ended(entries, v, w)
    BY DEF Ended
  <2>2. QED
    BY <1>2, <2>1 DEF Outlives
<1>6. QED
  BY <1>3, <1>4, <1>5

LEMMA NewEntry ==
  ASSUME NEW entries, NEW v, NEW w
  PROVE  /\ Entry(v) \in Succeeded(entries, v, w) /\ Entry(v) \in Ended(entries, v, w)
         /\ Entry(v).value = v /\ Entry(v).since = {}
  BY DEF Entry, Succeeded, Ended

------------------------------------------------------------------------------
(* Passwords. *)

\* w has a change of u's password; it has found or made it what is asked for.
Changes(w, u) == Asked(w).type = "change" /\ handler[w].user = u
Changed(w, u) == At(w, "change_password_response") /\ handler[w].user = u

\* The stored password is asked for by an open request, or an entry has it that no
\* answer which is about to be sent takes away.
PasswordStands(u) ==
  \/ \E w \in Worker : Changes(w, u) /\ Asked(w).new_password = user_credentials[u].password
  \/ \E e \in passwords[u] :
       /\ e.value = user_credentials[u].password
       /\ \A w \in Worker : Changed(w, u) => w \notin e.since

PasswordsKnown == \A u \in Users : PasswordStands(u)

\* A step of w that leaves the password alone and does not get a change to where its
\* answer is sent.
LEMMA PasswordKept ==
  ASSUME NEW w \in Worker, NEW u, PasswordStands(u),
         \A v \in Worker \ {w} : handler'[v] = handler[v],
         user_credentials'[u].password = user_credentials[u].password,
         ~Changed(w, u)',
         Changes(w, u) => \/ Changes(w, u)' /\ Asked(w)' = Asked(w)
                          \/ Entry(Asked(w).new_password) \in passwords'[u],
         \A e \in passwords[u] :
           (Changed(w, u) => w \notin e.since) => Outlives(e, passwords'[u], w)
  PROVE  PasswordStands(u)'
<1>1. \A v \in Worker \ {w} :
        /\ Changes(v, u)' <=> Changes(v, u)
        /\ Changed(v, u)' <=> Changed(v, u)
        /\ Asked(v)' = Asked(v)
  BY DEF Changes, Changed, Asked, At
<1>2. ASSUME NEW x \in Worker, Changes(x, u),
             Asked(x).new_password = user_credentials[u].password
      PROVE  PasswordStands(u)'
  <2>1. CASE Changes(x, u)' /\ Asked(x)' = Asked(x)
    BY <1>2, <2>1 DEF PasswordStands
  <2>2. CASE Entry(Asked(x).new_password) \in passwords'[u]
    BY <1>2, <2>2, NewEntry DEF PasswordStands
  <2>3. QED
    BY <1>1, <1>2, <2>1, <2>2
<1>3. ASSUME NEW e \in passwords[u], e.value = user_credentials[u].password,
             \A x \in Worker : Changed(x, u) => x \notin e.since
      PROVE  PasswordStands(u)'
  <2>1. PICK d \in passwords'[u] : d.value = e.value /\ d.since \subseteq e.since \cup {w}
    BY <1>3 DEF Outlives
  <2>2. \A x \in Worker : Changed(x, u)' => x \notin d.since
    BY <1>1, <1>3, <2>1
  <2>3. QED
    BY <1>3, <2>1, <2>2 DEF PasswordStands
<1>4. QED
  BY <1>2, <1>3 DEF PasswordStands

\* A step of w that leaves w with its change and the password asked for.
LEMMA PasswordAsked ==
  ASSUME NEW w \in Worker, NEW u, Changes(w, u)',
         user_credentials'[u].password = Asked(w)'.new_password
  PROVE  PasswordStands(u)'
  BY DEF PasswordStands

\* After a step, places are still those of the request.
LEMMA PlacesNext ==
  ASSUME TypeOK', NEW w \in Worker
  PROVE  /\ At(w, "change_password_response")' => Asked(w)'.type = "change"
         /\ At(w, "update_profile_response")' => Asked(w)'.type = "update"
         /\ At(w, "update_profile")' => Asked(w)'.type = "update"
<1>1. handler'[w].at \in PlacesOf[Asked(w)'.type] /\ handler'[w] \in HandlerState'
  BY DEF TypeOK, HandlerOK
<1>2. Asked(w)' \in Request(Nat) \cup {NoRequest}
  BY <1>1 DEF HandlerState, Asked
<1>3. Kinds(Asked(w)')
  BY <1>2, RequestKinds
<1>4. QED
  BY <1>1, <1>3 DEF Kinds, PlacesOf, At

LEMMA InsertAdds ==
  ASSUME TypeOK, NEW w \in Worker, insert_user(w)
  PROVE  Append(user_credentials, NewRow(w)) # user_credentials
<1>1. user_credentials \in Seq(UserRow) /\ Len(user_credentials) \in Nat
  BY UsersAre DEF TypeOK
<1>2. NewRow(w) \in UserRow
  BY HandlerKinds DEF insert_user, At, Kinds, NewRow, UserRow
<1>3. Len(Append(user_credentials, NewRow(w))) = Len(user_credentials) + 1
  BY <1>1, <1>2
<1>4. QED
  BY <1>1, <1>3

\* The steps that are not of a change leave the passwords of the rows alone.
LEMMA PasswordRows ==
  ASSUME TypeOK, NEW w \in Worker, Handle(w), ~process(w), Asked(w).type # "change",
         NEW u \in Users
  PROVE  /\ user_credentials'[u].password = user_credentials[u].password
         /\ passwords'[u] = passwords[u]
<1>1. handler[w].at \notin {"select_password", "update_password", "change_password_response"}
  BY HandlerKinds
<1>2. CASE insert_user(w)
  <2>1. CASE UNCHANGED <<user_credentials, passwords>>
    BY <2>1
  <2>2. CASE user_credentials' # user_credentials
    BY <1>2, <2>2, InsertStep, UsersAre DEF TypeOK
  <2>3. QED
    BY <1>2, <2>1, <2>2, InsertAdds DEF insert_user, NewRow
<1>3. CASE update_profile(w)
  <2>1. UNCHANGED passwords
    BY <1>3 DEF update_profile, clients
  <2>2. CASE user_credentials' = [user_credentials EXCEPT ![handler[w].user] = UpdatedRow(w)]
    BY <2>1, <2>2, UsersAre DEF UserRow, UpdatedRow, TypeOK
  <2>3. QED
    BY <1>3, <2>1, <2>2 DEF update_profile, UpdatedRow
<1>4. CASE update_profile_response(w) \/ error_response(w)
  BY <1>4 DEF update_profile_response, error_response, EndedUnknown, tables
<1>5. QED
  BY <1>1, <1>2, <1>3, <1>4, QuietStep DEF Handle, Quiet, update_password, change_password_response, At

\* A change that does not end is still the same change.
LEMMA ChangeStays ==
  ASSUME TypeOK, NEW w \in Worker, Frame(w), Asked(w).type = "change", NEW u
  PROVE  /\ handler'[w] # Idle /\ Changes(w, u) => Changes(w, u)' /\ Asked(w)' = Asked(w)
         /\ Changed(w, u)' => Changes(w, u)
<1>1. handler[w].at # "select_user"
  BY HandlerKinds
<1>2. QED
  BY <1>1 DEF Frame, Changes, Changed, Asked, At, Idle

\* Only a signup adds a user.
LEMMA WhoIsNew ==
  ASSUME TypeOK, NEW w \in Worker, Handle(w), NEW u \in Users', u \notin Users
  PROVE  insert_user(w) /\ user_credentials' # user_credentials
<1>1. user_credentials' # user_credentials
  BY DEF Users
<1>2. ~process(w) /\ ~Quiet(w)
  BY <1>1, ProcessStep, QuietStep
<1>3. ~update_password(w) /\ ~update_profile(w)
  BY <1>1 DEF update_password, update_profile, Users, TypeOK
<1>4. QED
  BY <1>1, <1>2, <1>3 DEF Handle, Quiet, change_password_response, update_profile_response,
     error_response, tables

LEMMA PasswordsStep ==
  ASSUME TypeOK, TypeOK', PasswordsKnown, NEW w \in Worker, Handle(w)
  PROVE  PasswordsKnown'
<1> SUFFICES ASSUME NEW u \in Users'
             PROVE  PasswordStands(u)'
  BY DEF PasswordsKnown
<1>1. Users \subseteq UserID /\ handler \in [Worker -> HandlerState]
  BY UsersAre DEF TypeOK
<1>2. \A x \in Users : \A e \in passwords[x] : \A v :
        /\ Outlives(e, passwords[x], w) /\ Outlives(e, Taken(passwords[x], w), w)
        /\ Outlives(e, Ended(passwords[x], v, w), w)
        /\ w \notin e.since => Outlives(e, Succeeded(passwords[x], v, w), w)
  BY <1>1, EntriesOutlive DEF TypeOK
<1>3. CASE process(w)
  <2>1. u \in Users /\ PasswordStands(u) /\ ~Changes(w, u) /\ ~Changed(w, u)'
    BY <1>3, ProcessStep DEF PasswordsKnown, Changes, Changed, At
  <2>2. passwords'[u] = passwords[u] \/ passwords'[u] = Taken(passwords[u], w)
    BY <1>1, <1>3, <2>1, ProcessStep
  <2>3. QED
    BY <1>2, <1>3, <2>1, <2>2, ProcessStep, PasswordKept
<1>4. CASE u \notin Users
  <2>1. insert_user(w) /\ user_credentials' # user_credentials
    BY <1>4, WhoIsNew
  <2>2. /\ passwords'[u] = {Entry(Asked(w).password)}
        /\ user_credentials'[u].password = Asked(w).password
    <3>1. /\ u = Len(user_credentials) + 1 /\ u \in UserID
          /\ user_credentials'[u] = NewRow(w)
          /\ passwords' = [passwords EXCEPT ![u] = {Entry(Asked(w).password)}]
      BY <1>4, <2>1, InsertStep
    <3>2. NewRow(w).password = Asked(w).password
      BY DEF NewRow
    <3>3. QED
      BY <3>1, <3>2 DEF TypeOK
  <2>3. QED
    BY <2>2, NewEntry DEF PasswordStands
<1> SUFFICES ASSUME ~process(w), u \in Users
             PROVE  PasswordStands(u)'
  BY <1>3, <1>4
<1>5. Frame(w) /\ PasswordStands(u)
  BY StepFrame DEF PasswordsKnown
<1>6. CASE Asked(w).type # "change"
  <2>1. Asked(w)'.type # "change"
    BY <1>5, <1>6 DEF Frame, Idle, NoRequest, Asked
  <2>2. ~Changed(w, u)' /\ ~Changes(w, u)
    BY <1>6, <2>1, PlacesNext DEF Changed, Changes
  <2>3. QED
    BY <1>2, <1>5, <1>6, <2>2, PasswordRows, PasswordKept DEF Frame
<1>7. CASE Asked(w).type = "change" /\ handler[w].user # u
  <2>1. ~Changes(w, u) /\ ~Changed(w, u)'
    BY <1>5, <1>7, ChangeStays DEF Changes
  <2>2. /\ user_credentials'[u].password = user_credentials[u].password
        /\ passwords'[u] = passwords[u]
    <3>1. CASE update_password(w)
      BY <1>7, <3>1 DEF update_password, clients, TypeOK
    <3>2. CASE change_password_response(w) \/ error_response(w)
      BY <1>1, <1>7, <3>2 DEF change_password_response, error_response, EndedUnknown, tables, TypeOK
    <3>3. CASE Quiet(w)
      BY <3>3, QuietStep
    <3>4. QED
      BY <1>7, <3>1, <3>2, <3>3, HandlerKinds DEF Handle, Quiet, insert_user, update_profile,
         update_profile_response, At
  <2>3. QED
    BY <1>2, <1>5, <2>1, <2>2, PasswordKept DEF Frame
<1>8. CASE Asked(w).type = "change" /\ handler[w].user = u
  <2> DEFINE p == Asked(w).new_password
  <2>1. Changes(w, u) /\ handler[w] \in HandlerState
    BY <1>8 DEF Changes, TypeOK
  <2>2. CASE UNCHANGED <<user_credentials, passwords>> /\ handler'[w] # Idle /\ ~Changed(w, u)'
    BY <1>2, <1>5, <1>8, <2>1, <2>2, ChangeStays, PasswordKept DEF Frame
  <2>3. CASE select_password(w)
    <3>1. CASE Goto(w, "error_response") \/ Goto(w, "update_password")
      <4>1. handler'[w].at \in {"error_response", "update_password"} /\ handler'[w] # Idle
        BY <1>1, <2>1, <3>1 DEF Goto, HandlerState, Idle
      <4>2. QED
        BY <2>2, <2>3, <4>1, QuietStep DEF Quiet, Changed, At
    <3>2. CASE Goto(w, "change_password_response") /\ p = user_credentials[u].password
      <4>1. handler'[w].at = "change_password_response" /\ handler'[w] # Idle
        BY <1>1, <2>1, <3>2 DEF Goto, HandlerState, Idle
      <4>2. Changes(w, u)' /\ Asked(w)' = Asked(w)
        BY <1>5, <1>8, <2>1, <4>1, ChangeStays
      <4>3. user_credentials'[u].password = p
        BY <2>3, <3>2, QuietStep DEF Quiet
      <4>4. QED
        BY <4>2, <4>3, PasswordAsked
    <3>3. QED
      BY <1>8, <2>3, <3>1, <3>2 DEF select_password
  <2>4. CASE update_password(w)
    <3>1. handler'[w] # Idle
      <4>1. Goto(w, "change_password_response") \/ Goto(w, "error_response")
        BY <1>8, <2>4 DEF update_password, Failure, Caught
      <4>2. QED
        BY <1>1, <2>1, <4>1 DEF Goto, HandlerState, Idle
    <3>2. Changes(w, u)' /\ Asked(w)' = Asked(w)
      BY <1>5, <1>8, <2>1, <3>1, ChangeStays
    <3>3. user_credentials'[u].password = p
      BY <1>8, <2>4, UsersAre DEF update_password, UserRow, TypeOK
    <3>4. QED
      BY <3>2, <3>3, PasswordAsked
  <2>5. CASE change_password_response(w)
    <3>1. handler'[w] = Idle /\ Changed(w, u)
      BY <1>1, <1>8, <2>5, Ends DEF change_password_response, Changed, At
    <3>2. ~Changed(w, u)'
      BY <3>1 DEF Changed, At, Idle
    <3>3. /\ passwords'[u] = Succeeded(passwords[u], p, w)
          /\ user_credentials' = user_credentials
      BY <1>1, <1>8, <2>5 DEF change_password_response, tables, TypeOK
    <3>4. Entry(p) \in passwords'[u]
      BY <3>3, NewEntry
    <3>5. QED
      BY <1>2, <1>5, <3>1, <3>2, <3>3, <3>4, PasswordKept DEF Frame
  <2>6. CASE error_response(w)
    <3>1. handler'[w] = Idle
      BY <1>1, <2>6, Ends DEF error_response
    <3>2. ~Changed(w, u)'
      BY <3>1 DEF Changed, At, Idle
    <3>3. /\ passwords'[u] = Ended(passwords[u], p, w)
          /\ user_credentials' = user_credentials
      BY <1>1, <1>8, <2>6 DEF error_response, EndedUnknown, tables, TypeOK
    <3>4. Entry(p) \in passwords'[u]
      BY <3>3, NewEntry
    <3>5. QED
      BY <1>2, <1>5, <3>1, <3>2, <3>3, <3>4, PasswordKept DEF Frame
  <2>7. CASE fail(w)
    <3>1. handler'[w].at = "error_response" /\ handler'[w] # Idle
      BY <1>1, <1>8, <2>1, <2>7, FailureIs DEF fail, Caught, HandlerState, Idle
    <3>2. QED
      BY <2>2, <2>7, <3>1, QuietStep DEF Quiet, Changed, At
  <2>8. QED
    BY <1>8, <2>3, <2>4, <2>5, <2>6, <2>7, HandlerKinds
       DEF Handle, check_exists, check_exists_Body, insert_user, select_user, select_token,
           select_token_Body, insert_token, select_profile, update_profile,
           update_profile_response, get_user_profile, At
<1>9. QED
  BY <1>6, <1>7, <1>8

------------------------------------------------------------------------------
(* Profiles, field by field. *)

\* w has an update of u's profile that is not answered; it has found field f or made
\* it what is asked for.
Updates(w, u) == Asked(w).type = "update" /\ handler[w].user = u /\ ~At(w, "get_user_profile")
UpdatedField(w, u, f) ==
  /\ handler[w].user = u
  /\ \/ At(w, "update_profile_response")
     \/ At(w, "update_profile") /\ Asked(w).profile[f] = handler[w].read[f]

FieldStands(u, f) ==
  \/ \E w \in Worker :
       Updates(w, u) /\ Asked(w).profile[f] = user_credentials[u].profile[f]
  \/ \E e \in profiles[u] :
       /\ e.value[f] = user_credentials[u].profile[f]
       /\ \A w \in Worker : UpdatedField(w, u, f) => w \notin e.since

ProfilesKnown == \A u \in Users, f \in Field : FieldStands(u, f)

\* A step of w that leaves the field alone: its update has left it alone before, or
\* has not looked at it.
LEMMA FieldKept ==
  ASSUME NEW w \in Worker, NEW u, NEW f, FieldStands(u, f),
         \A v \in Worker \ {w} : handler'[v] = handler[v],
         user_credentials'[u].profile[f] = user_credentials[u].profile[f],
         \/ ~UpdatedField(w, u, f)'
         \/ UpdatedField(w, u, f) /\ profiles'[u] = profiles[u],
         Updates(w, u) => \/ Updates(w, u)' /\ Asked(w)' = Asked(w)
                          \/ Entry(Asked(w).profile) \in profiles'[u],
         \A e \in profiles[u] :
           (UpdatedField(w, u, f) => w \notin e.since) => Outlives(e, profiles'[u], w)
  PROVE  FieldStands(u, f)'
<1>1. \A v \in Worker \ {w} :
        /\ Updates(v, u)' <=> Updates(v, u)
        /\ UpdatedField(v, u, f)' <=> UpdatedField(v, u, f)
        /\ Asked(v)' = Asked(v)
  BY DEF Updates, UpdatedField, Asked, At
<1>2. ASSUME NEW x \in Worker, Updates(x, u),
             Asked(x).profile[f] = user_credentials[u].profile[f]
      PROVE  FieldStands(u, f)'
  <2>1. CASE Updates(x, u)' /\ Asked(x)' = Asked(x)
    BY <1>2, <2>1 DEF FieldStands
  <2>2. CASE Entry(Asked(x).profile) \in profiles'[u]
    BY <1>2, <2>2, NewEntry DEF FieldStands
  <2>3. QED
    BY <1>1, <1>2, <2>1, <2>2
<1>3. ASSUME NEW e \in profiles[u], e.value[f] = user_credentials[u].profile[f],
             \A x \in Worker : UpdatedField(x, u, f) => x \notin e.since
      PROVE  FieldStands(u, f)'
  <2>1. CASE UpdatedField(w, u, f) /\ profiles'[u] = profiles[u]
    BY <1>1, <1>3, <2>1 DEF FieldStands
  <2>2. CASE ~UpdatedField(w, u, f)'
    <3>1. PICK d \in profiles'[u] : d.value = e.value /\ d.since \subseteq e.since \cup {w}
      BY <1>3 DEF Outlives
    <3>2. \A x \in Worker : UpdatedField(x, u, f)' => x \notin d.since
      BY <1>1, <1>3, <2>2, <3>1
    <3>3. QED
      BY <1>3, <3>1, <3>2 DEF FieldStands
  <2>3. QED
    BY <2>1, <2>2
<1>4. QED
  BY <1>2, <1>3 DEF FieldStands

\* A step of w that leaves w with its update and the field as asked for.
LEMMA FieldAsked ==
  ASSUME NEW w \in Worker, NEW u, NEW f, Updates(w, u)',
         user_credentials'[u].profile[f] = Asked(w)'.profile[f]
  PROVE  FieldStands(u, f)'
  BY DEF FieldStands

\* The steps that are not of an update leave the profiles of the rows alone.
LEMMA ProfileRows ==
  ASSUME TypeOK, NEW w \in Worker, Handle(w), ~process(w), Asked(w).type # "update",
         NEW u \in Users
  PROVE  /\ user_credentials'[u].profile = user_credentials[u].profile
         /\ profiles'[u] = profiles[u]
<1>1. handler[w].at \notin {"select_profile", "update_profile", "update_profile_response",
                           "get_user_profile"}
  BY HandlerKinds
<1>2. CASE insert_user(w)
  <2>1. CASE UNCHANGED <<user_credentials, profiles>>
    BY <2>1
  <2>2. CASE user_credentials' # user_credentials
    BY <1>2, <2>2, InsertStep, UsersAre DEF TypeOK
  <2>3. QED
    BY <1>2, <2>1, <2>2, InsertAdds DEF insert_user, NewRow
<1>3. CASE update_password(w)
  BY <1>3, UsersAre DEF update_password, clients, UserRow, TypeOK
<1>4. CASE change_password_response(w) \/ error_response(w)
  BY <1>4 DEF change_password_response, error_response, EndedUnknown, tables
<1>5. QED
  BY <1>1, <1>2, <1>3, <1>4, QuietStep DEF Handle, Quiet, update_profile, update_profile_response, At

\* An update that does not end is still the same update.
LEMMA UpdateStays ==
  ASSUME TypeOK, NEW w \in Worker, Frame(w), Asked(w).type = "update", NEW u
  PROVE  /\ handler'[w] # Idle /\ handler[w].user = u =>
              handler'[w].user = u /\ Asked(w)' = Asked(w)
         /\ handler[w].user # u /\ u \in UserID => handler'[w].user # u
<1>1. handler[w].at # "select_user" /\ 0 \notin UserID
  BY HandlerKinds DEF UserID
<1>2. QED
  BY <1>1 DEF Frame, Asked, Idle


\* The steps of an update of u, other than its answers, leave his entries alone.
LEMMA ProfileEntries ==
  ASSUME TypeOK, NEW w \in Worker, Handle(w), ~process(w), Asked(w).type = "update",
         NEW u \in Users
  PROVE  /\ UNCHANGED profiles \/ update_profile_response(w) \/ error_response(w)
         /\ UNCHANGED user_credentials \/ update_profile(w)
<1>1. ~insert_user(w) /\ ~update_password(w) /\ ~change_password_response(w)
  BY HandlerKinds DEF insert_user, update_password, change_password_response, At
<1>2. QED
  BY <1>1, QuietStep DEF Handle, Quiet, update_profile, update_profile_response, error_response,
     clients, tables

LEMMA ProfilesStep ==
  ASSUME TypeOK, TypeOK', ProfilesKnown, NEW w \in Worker, Handle(w)
  PROVE  ProfilesKnown'
<1> SUFFICES ASSUME NEW u \in Users', NEW f \in Field
             PROVE  FieldStands(u, f)'
  BY DEF ProfilesKnown
<1>1. Users \subseteq UserID /\ handler \in [Worker -> HandlerState]
  BY UsersAre DEF TypeOK
<1>2. \A x \in Users : \A e \in profiles[x] : \A v :
        /\ Outlives(e, profiles[x], w) /\ Outlives(e, Taken(profiles[x], w), w)
        /\ Outlives(e, Ended(profiles[x], v, w), w)
        /\ w \notin e.since => Outlives(e, Succeeded(profiles[x], v, w), w)
  BY <1>1, EntriesOutlive DEF TypeOK
<1>3. CASE process(w)
  <2>1. u \in Users /\ FieldStands(u, f) /\ ~Updates(w, u) /\ ~UpdatedField(w, u, f)'
    BY <1>3, ProcessStep DEF ProfilesKnown, Updates, UpdatedField, At
  <2>2. profiles'[u] = profiles[u] \/ profiles'[u] = Taken(profiles[u], w)
    BY <1>1, <1>3, <2>1, ProcessStep
  <2>3. QED
    BY <1>2, <1>3, <2>1, <2>2, ProcessStep, FieldKept
<1>4. CASE u \notin Users
  <2>1. insert_user(w) /\ user_credentials' # user_credentials
    BY <1>4, WhoIsNew
  <2>2. /\ profiles'[u] = {Entry(Asked(w).profile)}
        /\ user_credentials'[u].profile = Asked(w).profile
    <3>1. /\ u = Len(user_credentials) + 1 /\ u \in UserID
          /\ user_credentials'[u] = NewRow(w)
          /\ profiles' = [profiles EXCEPT ![u] = {Entry(Asked(w).profile)}]
      BY <1>4, <2>1, InsertStep
    <3>2. NewRow(w).profile = Asked(w).profile
      BY DEF NewRow
    <3>3. QED
      BY <3>1, <3>2 DEF TypeOK
  <2>3. QED
    BY <2>2, NewEntry DEF FieldStands
<1> SUFFICES ASSUME ~process(w), u \in Users
             PROVE  FieldStands(u, f)'
  BY <1>3, <1>4
<1>5. Frame(w) /\ FieldStands(u, f)
  BY StepFrame DEF ProfilesKnown
<1>6. CASE Asked(w).type # "update"
  <2>1. Asked(w)'.type # "update"
    BY <1>5, <1>6 DEF Frame, Idle, NoRequest, Asked
  <2>2. ~UpdatedField(w, u, f)' /\ ~Updates(w, u)
    BY <1>6, <2>1, PlacesNext DEF UpdatedField, Updates
  <2>3. QED
    BY <1>2, <1>5, <1>6, <2>2, ProfileRows, FieldKept DEF Frame
<1>7. CASE Asked(w).type = "update" /\ handler[w].user # u
  <2>1. ~Updates(w, u) /\ ~UpdatedField(w, u, f)'
    BY <1>1, <1>5, <1>7, UpdateStays DEF Updates, UpdatedField
  <2>2. user_credentials'[u].profile = user_credentials[u].profile
    <3>1. CASE update_profile(w)
      <4>1. CASE user_credentials' = [user_credentials EXCEPT ![handler[w].user] = UpdatedRow(w)]
        BY <1>7, <4>1 DEF TypeOK, Users
      <4>2. QED
        BY <3>1, <4>1 DEF update_profile, UpdatedRow
    <3>2. QED
      BY <1>7, <3>1, ProfileEntries
  <2>3. profiles'[u] = profiles[u]
    <3>1. CASE update_profile_response(w) \/ error_response(w)
      BY <1>1, <1>7, <3>1 DEF update_profile_response, error_response, EndedUnknown, TypeOK
    <3>2. QED
      BY <1>7, <3>1, ProfileEntries
  <2>4. QED
    BY <1>2, <1>5, <2>1, <2>2, <2>3, FieldKept DEF Frame
<1>8. CASE Asked(w).type = "update" /\ handler[w].user = u
  <2> DEFINE p == Asked(w).profile
  <2>1. handler[w] \in HandlerState
    BY DEF TypeOK
  \* The handler goes on: it is still at its update.
  <2>2. ASSUME handler'[w].at \in {"update_profile", "update_profile_response", "error_response"}
        PROVE  /\ Updates(w, u)' /\ Asked(w)' = Asked(w) /\ handler'[w].user = u
    BY <1>5, <1>8, <2>2, UpdateStays DEF Updates, Asked, At, Idle
  <2>3. CASE handler'[w].at = "error_response"
              /\ user_credentials'[u].profile[f] = user_credentials[u].profile[f]
              /\ profiles' = profiles
    <3>1. ~UpdatedField(w, u, f)'
      BY <2>3 DEF UpdatedField, At
    <3>2. QED
      BY <1>2, <1>5, <2>2, <2>3, <3>1, FieldKept DEF Frame
  <2>4. CASE select_profile(w)
    <3>1. user_credentials' = user_credentials /\ profiles' = profiles
      BY <2>4, QuietStep DEF Quiet
    <3>2. handler'[w].at = "update_profile" /\ handler'[w].read = user_credentials[u].profile
      BY <1>8, <2>1, <2>4 DEF select_profile, HandlerState, TypeOK
    <3>3. CASE p[f] = user_credentials[u].profile[f]
      BY <2>2, <3>1, <3>2, <3>3, FieldAsked
    <3>4. CASE p[f] # user_credentials[u].profile[f]
      <4>1. ~UpdatedField(w, u, f)'
        BY <2>2, <3>2, <3>4 DEF UpdatedField, At
      <4>2. QED
        BY <1>2, <1>5, <2>2, <3>1, <3>2, <4>1, FieldKept DEF Frame
    <3>5. QED
      BY <3>3, <3>4
  <2>5. CASE update_profile(w)
    <3>1. handler'[w].at \in {"update_profile_response", "error_response"}
      <4>1. Goto(w, "update_profile_response") \/ Goto(w, "error_response")
        BY <1>8, <2>5 DEF update_profile, Failure, Caught
      <4>2. QED
        BY <1>1, <2>1, <4>1 DEF Goto, HandlerState
    <3>2. profiles' = profiles
      BY <2>5 DEF update_profile, clients
    <3>3. CASE user_credentials' = user_credentials /\ Failure(w)
      <4>1. handler'[w].at = "error_response"
        BY <1>1, <1>8, <2>1, <3>3 DEF Failure, Caught, Goto, HandlerState
      <4>2. QED
        BY <2>3, <3>2, <3>3, <4>1
    <3>4. CASE user_credentials' = [user_credentials EXCEPT ![u] = UpdatedRow(w)]
      <4>1. user_credentials'[u].profile[f]
              = IF p[f] # handler[w].read[f] THEN p[f] ELSE user_credentials[u].profile[f]
        <5>1. user_credentials[u] \in UserRow /\ user_credentials'[u] = UpdatedRow(w)
          BY <3>4, UsersAre DEF TypeOK
        <5>2. UpdatedRow(w).profile
                = Updated(user_credentials[u].profile, handler[w].read, p)
          BY <1>8, <5>1 DEF UpdatedRow, UserRow
        <5>3. QED
          BY <5>1, <5>2 DEF Updated
      <4>2. CASE p[f] # handler[w].read[f]
        BY <2>2, <3>1, <4>1, <4>2, FieldAsked
      <4>3. CASE p[f] = handler[w].read[f]
        <5>1. UpdatedField(w, u, f)
          BY <1>8, <2>5, <4>3 DEF UpdatedField, update_profile
        <5>2. QED
          BY <1>2, <1>5, <2>2, <3>1, <3>2, <4>1, <4>3, <5>1, FieldKept DEF Frame
      <4>4. QED
        BY <4>2, <4>3
    <3>5. QED
      BY <1>8, <2>5, <3>3, <3>4 DEF update_profile, UpdatedRow
  <2>6. CASE update_profile_response(w)
    <3>1. handler'[w].at = "get_user_profile"
      BY <1>1, <2>1, <2>6 DEF update_profile_response, Goto, HandlerState
    <3>2. UpdatedField(w, u, f) /\ ~UpdatedField(w, u, f)'
      BY <1>8, <2>6, <3>1 DEF update_profile_response, UpdatedField, At
    <3>3. /\ profiles'[u] = Succeeded(profiles[u], p, w)
          /\ user_credentials' = user_credentials
      BY <1>1, <1>8, <2>6 DEF update_profile_response, tables, TypeOK
    <3>4. Entry(p) \in profiles'[u]
      BY <3>3, NewEntry
    <3>5. QED
      BY <1>2, <1>5, <3>2, <3>3, <3>4, FieldKept DEF Frame
  <2>7. CASE get_user_profile(w)
    <3>1. handler'[w] = Idle /\ ~Updates(w, u)
      BY <1>1, <2>7, Ends DEF get_user_profile, Updates, At
    <3>2. ~UpdatedField(w, u, f)'
      BY <3>1 DEF UpdatedField, At, Idle
    <3>3. QED
      BY <1>2, <1>5, <2>7, <3>1, <3>2, QuietStep, FieldKept DEF Frame, Quiet
  <2>8. CASE error_response(w)
    <3>1. handler'[w] = Idle
      BY <1>1, <2>8, Ends DEF error_response
    <3>2. ~UpdatedField(w, u, f)'
      BY <3>1 DEF UpdatedField, At, Idle
    <3>3. /\ profiles'[u] = Ended(profiles[u], p, w)
          /\ user_credentials' = user_credentials
      BY <1>1, <1>8, <2>8 DEF error_response, EndedUnknown, tables, TypeOK
    <3>4. Entry(p) \in profiles'[u]
      BY <3>3, NewEntry
    <3>5. QED
      BY <1>2, <1>5, <3>1, <3>2, <3>3, <3>4, FieldKept DEF Frame
  <2>9. CASE fail(w)
    <3>1. handler'[w].at = "error_response"
      BY <1>1, <1>8, <2>1, <2>9 DEF fail, Failure, Caught, Goto, HandlerState
    <3>2. QED
      BY <2>3, <2>9, <3>1, QuietStep DEF Quiet
  <2>10. QED
    BY <1>8, <2>4, <2>5, <2>6, <2>7, <2>8, <2>9, HandlerKinds
       DEF Handle, check_exists, check_exists_Body, insert_user, select_user, select_token,
           select_token_Body, insert_token, select_password, update_password,
           change_password_response, At
<1>9. QED
  BY <1>6, <1>7, <1>8

------------------------------------------------------------------------------
(* What the clients know. *)

KnownInv == TypeOK /\ PasswordsKnown /\ ProfilesKnown

LEMMA KnownInit == Init => KnownInv
<1>1. Init => Users = {}
  BY DEF Init, Users
<1>2. QED
  BY <1>1, TypeInit DEF KnownInv, PasswordsKnown, ProfilesKnown

\* Before the process ends, what is stored is a value of an entry or of an open
\* request; so it is of an entry when it has been started again.
LEMMA StoredIsKnown ==
  ASSUME KnownInv
  PROVE  ClientKnows
<1> SUFFICES ASSUME NEW u \in Users
             PROVE  /\ user_credentials[u].password \in Values(passwords[u]) \cup OpenPasswords(u)
                    /\ \A f \in Field :
                         \E p \in Values(profiles[u]) \cup OpenProfiles(u) :
                           user_credentials[u].profile[f] = p[f]
  BY DEF ClientKnows
<1>1. user_credentials[u].password \in Values(passwords[u]) \cup OpenPasswords(u)
  <2>1. ASSUME NEW w \in Worker, Changes(w, u)
        PROVE  Asked(w).new_password \in OpenPasswords(u)
    <3>1. ~At(w, "get_user_profile")
      BY <2>1, HandlerKinds DEF KnownInv, Changes, At
    <3>2. Asked(w) \in Open("change", u)
      BY <2>1, <3>1 DEF Open, Changes
    <3>3. QED
      BY <3>2 DEF OpenPasswords
  <2>2. PasswordStands(u)
    BY DEF KnownInv, PasswordsKnown
  <2>3. QED
    BY <2>1, <2>2 DEF PasswordStands, Values
<1>2. ASSUME NEW f \in Field
      PROVE  \E p \in Values(profiles[u]) \cup OpenProfiles(u) : user_credentials[u].profile[f] = p[f]
  <2>1. ASSUME NEW w \in Worker, Updates(w, u)
        PROVE  Asked(w).profile \in OpenProfiles(u)
    <3>1. Asked(w) \in Open("update", u)
      BY <2>1 DEF Open, Updates
    <3>2. QED
      BY <3>1 DEF OpenProfiles
  <2>2. FieldStands(u, f)
    BY DEF KnownInv, ProfilesKnown
  <2>3. QED
    BY <2>1, <2>2 DEF FieldStands, Values
<1>3. QED
  BY <1>1, <1>2

LEMMA KnownExit ==
  ASSUME KnownInv, exit
  PROVE  PasswordsKnown' /\ ProfilesKnown'
<1>1. /\ ClientKnows /\ user_credentials' = user_credentials /\ Users' = Users
      /\ Users \subseteq UserID
  BY StoredIsKnown, UsersAre DEF exit, tables, Users, KnownInv
<1>2. \A w \in Worker : At(w, "idle")'
  BY DEF exit, At, Idle
<1>3. PasswordsKnown'
  <2> SUFFICES ASSUME NEW u \in Users
               PROVE  PasswordStands(u)'
    BY <1>1 DEF PasswordsKnown
  <2>1. Entry(user_credentials[u].password) \in passwords'[u]
    BY <1>1 DEF exit, ClientKnows
  <2>2. QED
    BY <1>1, <2>1, NewEntry DEF PasswordStands
<1>4. ProfilesKnown'
  <2> SUFFICES ASSUME NEW u \in Users, NEW f \in Field
               PROVE  FieldStands(u, f)'
    BY <1>1 DEF ProfilesKnown
  <2>1. PICK p \in Values(profiles[u]) \cup OpenProfiles(u) : user_credentials[u].profile[f] = p[f]
    BY <1>1 DEF ClientKnows
  <2>2. Entry(p) \in profiles'[u]
    BY <1>1 DEF exit
  <2>3. QED
    BY <1>1, <2>1, <2>2, NewEntry DEF FieldStands
<1>5. QED
  BY <1>3, <1>4

LEMMA KnownNext == KnownInv /\ [Next]_vars => KnownInv'
<1> SUFFICES ASSUME KnownInv, [Next]_vars
             PROVE  KnownInv'
  OBVIOUS
<1>1. TypeOK /\ TypeOK'
  BY TypeNext DEF KnownInv
<1>2. CASE exit
  BY <1>1, <1>2, KnownExit DEF KnownInv
<1>3. ASSUME NEW w \in Worker, Handle(w)
      PROVE  KnownInv'
  BY <1>1, <1>3, PasswordsStep, ProfilesStep DEF KnownInv
<1>4. CASE UNCHANGED vars
  <2>1. UNCHANGED <<user_credentials, handler, passwords, profiles>>
    BY <1>4 DEF vars, tables, clients
  <2>2. QED
    BY <1>1, <2>1 DEF KnownInv, PasswordsKnown, PasswordStands, Changes, Changed, ProfilesKnown,
       FieldStands, Updates, UpdatedField, Users, Asked, At
<1>5. QED
  BY <1>2, <1>3, <1>4 DEF Next

\* ClientKnows for any number of workers and users: the stored password, and every
\* field of the stored profile, is one that the answers sent so far leave possible.
THEOREM ClientsKnow == Spec => []ClientKnows
<1>1. Spec => []KnownInv
  BY KnownInit, KnownNext, PTL DEF Spec
<1>2. KnownInv => ClientKnows
  BY StoredIsKnown
<1>3. QED
  BY <1>1, <1>2, PTL

------------------------------------------------------------------------------
(* Tokens. *)

\* Logins of one user that two workers handle have overlapped.
LoginsApart ==
  \A w, v \in Worker :
    w # v /\ Asked(w).type = "login" /\ Asked(v).type = "login"
      /\ handler[w].user = handler[v].user /\ handler[w].user \in UserID
    => handler[w].user \in overlapped

LEMMA ApartInit == Init => LoginsApart
  BY DEF Init, LoginsApart, Idle, NoRequest, Asked

\* Only the query for the user tells a login which user it is of.
LEMMA ApartStep ==
  ASSUME TypeOK, LoginsApart, NEW w \in Worker, Handle(w)
  PROVE  LoginsApart' /\ overlapped \subseteq overlapped'
<1>1. CASE process(w)
  <2>1. Asked(w)'.type = "login" => handler'[w].user \notin UserID
    BY <1>1, ProcessStep
  <2>2. QED
    BY <1>1, <2>1, ProcessStep DEF LoginsApart, Asked
<1>2. CASE select_user(w) /\ ~Answer(w)
  <2>1. PICK u \in Users :
          /\ handler' = [handler EXCEPT ![w].at = "select_token", ![w].user = u]
          /\ Overlap(w, u)
    BY <1>2 DEF select_user, Holders
  <2>2. handler[w] \in HandlerState
    BY DEF TypeOK
  <2>3. /\ \A v \in Worker \ {w} : handler'[v] = handler[v]
        /\ handler'[w].user = u
    BY <2>1, <2>2 DEF TypeOK, HandlerState
  <2>4. overlapped \subseteq overlapped'
    BY <2>1 DEF Overlap
  <2>5. ASSUME NEW v \in Worker \ {w}, Asked(v).type = "login", handler[v].user = u
        PROVE  u \in overlapped'
    BY <2>1, <2>5 DEF Overlap
  <2>6. QED
    BY <2>3, <2>4, <2>5 DEF LoginsApart, Asked
<1>3. CASE ~process(w) /\ (select_user(w) => Answer(w))
  <2>1. UNCHANGED overlapped
    <3>1. UNCHANGED overlapped \/ Answer(w) \/ NoAnswer(w) \/ Failure(w) \/ \E place : Goto(w, place)
      BY <1>3 DEF Handle, check_exists, check_exists_Body, insert_user, select_token,
         select_token_Body, insert_token, select_password, update_password,
         change_password_response, select_profile, update_profile, update_profile_response,
         get_user_profile, error_response, fail
    <3>2. QED
      BY <3>1 DEF Answer, NoAnswer, Failure, Goto
  <2>2. \/ handler'[w] = Idle
        \/ handler'[w].request = handler[w].request /\ handler'[w].user = handler[w].user
    <3>1. CASE select_user(w)
      BY <1>3, <3>1, Ends DEF TypeOK
    <3>2. CASE handler[w].at # "select_user"
      BY <1>3, <3>2, StepFrame DEF Frame
    <3>3. CASE ~select_user(w) /\ handler[w].at = "select_user"
      <4>1. fail(w)
        BY <1>3, <3>3, HandlerKinds DEF Handle, check_exists, check_exists_Body, insert_user,
           select_token, select_token_Body, insert_token, select_password, update_password,
           change_password_response, select_profile, update_profile, update_profile_response,
           get_user_profile, error_response, At
      <4>2. ~Caught(w)
        BY <3>3, HandlerKinds DEF Caught
      <4>3. QED
        BY <4>1, <4>2 DEF fail, Failure, NoAnswer, TypeOK
    <3>4. QED
      BY <3>1, <3>2, <3>3
  <2>3. \A v \in Worker \ {w} : handler'[v] = handler[v]
    BY <1>3, StepFrame DEF Frame
  <2>4. 0 \notin UserID
    BY DEF UserID
  <2>5. QED
    BY <2>1, <2>2, <2>3, <2>4 DEF LoginsApart, Asked, Idle, NoRequest
<1>4. QED
  BY <1>1, <1>2, <1>3

\* Unless two logins of a user overlap he has one token, and none while one of
\* them is about to make it.
TokensOnce ==
  /\ \A u \in UserID, s, t \in Token :
       <<u, s>> \in auth_tokens /\ <<u, t>> \in auth_tokens
         /\ u \notin overlapped => s = t
  /\ \A w \in Worker :
       At(w, "insert_token") /\ handler[w].user \notin overlapped
       => \A t \in Token : <<handler[w].user, t>> \notin auth_tokens

\* The tokens of a user stay as they are unless a handler makes one.
LEMMA TokensStep ==
  ASSUME TypeOK, TypeOK', LoginsApart, TokensOnce, NEW w \in Worker, Handle(w),
         overlapped \subseteq overlapped'
  PROVE  TokensOnce'
<1>1. \A v \in Worker \ {w} : handler'[v] = handler[v]
  BY StepFrame, ProcessStep DEF Frame
<1>2. CASE insert_token(w)
  <2> DEFINE u == handler[w].user
  <2>1. PICK t \in Token : auth_tokens' = auth_tokens \cup {<<u, t>>}
    BY <1>2 DEF insert_token
  <2>2. u \in Users /\ u \in UserID /\ Asked(w).type = "login" /\ At(w, "insert_token")
    BY <1>2, HandlerKinds, UsersAre DEF insert_token, At, TypeOK, HandlerOK
  <2>3. u \notin overlapped => \A s \in Token : <<u, s>> \notin auth_tokens
    BY <2>2 DEF TokensOnce
  <2>4. handler'[w] = Idle
    BY <1>2, <2>2, Ends DEF insert_token, Failure, Caught, TypeOK
  <2>5. ASSUME NEW v \in Worker, At(v, "insert_token")',
               handler'[v].user \notin overlapped'
        PROVE  \A s \in Token : <<handler'[v].user, s>> \notin auth_tokens'
    <3>1. v # w /\ handler'[v] = handler[v] /\ At(v, "insert_token")
      BY <1>1, <2>4, <2>5 DEF At, Idle
    <3>2. Asked(v).type = "login" /\ handler[v].user \in UserID
      BY <3>1, HandlerKinds, UsersAre DEF At, TypeOK, HandlerOK
    <3>3. handler[v].user # u
      BY <2>2, <2>5, <3>1, <3>2 DEF LoginsApart
    <3>4. QED
      BY <2>1, <2>5, <3>1, <3>2, <3>3 DEF TokensOnce
  <2>6. \A v \in UserID, s, r \in Token :
          <<v, s>> \in auth_tokens' /\ <<v, r>> \in auth_tokens'
            /\ v \notin overlapped' => s = r
    BY <2>1, <2>2, <2>3 DEF TokensOnce
  <2>7. QED
    BY <2>5, <2>6 DEF TokensOnce
<1>3. CASE ~insert_token(w)
  <2>1. UNCHANGED auth_tokens
    BY <1>3 DEF Handle, process, check_exists, check_exists_Body, insert_user, select_user,
       select_token, select_token_Body, select_password, update_password, change_password_response,
       select_profile, update_profile, update_profile_response, get_user_profile,
       error_response, fail, tables
  <2>3. At(w, "insert_token")' => \A t \in Token : <<handler'[w].user, t>> \notin auth_tokens
    <3>1. CASE select_token(w)
      <4>1. handler' = [handler EXCEPT ![w] = Idle] \/
              /\ handler' = [handler EXCEPT ![w].at = "insert_token"]
              /\ \A t \in Token : <<handler[w].user, t>> \notin auth_tokens
        BY <3>1, Ends DEF select_token, select_token_Body, Goto, TokensOf
      <4>2. QED
        BY <4>1 DEF TypeOK, HandlerState, At, Idle
    <3>2. CASE ~select_token(w)
      <4>1. CASE process(w)
        BY <4>1, ProcessStep DEF At
      <4>2. CASE ~process(w)
        BY <1>3, <3>2, <4>2, WhoGoesOn DEF At
      <4>3. QED
        BY <4>1, <4>2
    <3>3. QED
      BY <3>1, <3>2
  <2>4. ASSUME NEW v \in Worker, At(v, "insert_token")',
               handler'[v].user \notin overlapped'
        PROVE  \A t \in Token : <<handler'[v].user, t>> \notin auth_tokens'
    BY <1>1, <2>1, <2>3, <2>4 DEF TokensOnce, At
  <2>5. QED
    BY <2>1, <2>4 DEF TokensOnce
<1>4. QED
  BY <1>2, <1>3

\* The inductive invariant of the tokens.
TokenInv == TypeOK /\ LoginsApart /\ TokensOnce

LEMMA TokenInit == Init => TokenInv
  BY TypeInit, ApartInit DEF TokenInv, Init, TokensOnce, At, Idle

LEMMA TokenNext == TokenInv /\ [Next]_vars => TokenInv'
<1> SUFFICES ASSUME TokenInv, [Next]_vars
             PROVE  TokenInv'
  OBVIOUS
<1>1. TypeOK /\ TypeOK'
  BY TypeNext DEF TokenInv
<1>2. ASSUME NEW w \in Worker, Handle(w)
      PROVE  TokenInv'
  BY <1>1, <1>2, ApartStep, TokensStep DEF TokenInv
<1>3. CASE exit
  <2>1. \A w \in Worker : handler'[w] = Idle
    BY <1>3 DEF exit
  <2>2. 0 \notin UserID
    BY DEF UserID
  <2>3. QED
    BY <1>1, <1>3, <2>1, <2>2 DEF exit, tables, TokenInv, LoginsApart, TokensOnce,
       Asked, At, Idle, NoRequest
<1>4. CASE UNCHANGED vars
  BY <1>1, <1>4 DEF vars, tables, TokenInv, LoginsApart, TokensOnce, Asked, At
<1>5. QED
  BY <1>2, <1>3, <1>4 DEF Next

\* A token sent in a login response is the only one of its user, so a reconnect
\* accepts it whichever row it reads, unless two logins of the user overlapped.
THEOREM TokensWork == Spec => []GivenTokenWorks
<1>1. TokenInv => GivenTokenWorks
  <2> SUFFICES ASSUME TokenInv, NEW u \in Users, NEW t \in Token, <<u, t>> \in given,
                      u \notin overlapped
               PROVE  TokensOf(u) = {t}
    BY DEF GivenTokenWorks
  <2>1. t \in TokensOf(u) /\ u \in UserID
    BY UsersAre DEF TokenInv, TypeOK, TokensOf
  <2>2. QED
    BY <2>1 DEF TokenInv, TokensOnce, TokensOf
<1>2. QED
  BY <1>1, TokenInit, TokenNext, PTL DEF Spec

------------------------------------------------------------------------------
(* Signups. *)

\* User u keeps the profile p away from the first n checked fields.
Differs(u, p, n) ==
  \A k \in 1..n : user_credentials[u].profile[Checked[k]] # p[Checked[k]]

\* A signup was taken before its row; a profile that was never updated is the one
\* given; and those who were there differ from a signup in what it has checked.
RowsApart ==
  \A v \in Users :
    /\ user_credentials[v].after < v
    /\ ~user_credentials[v].updated => user_credentials[v].profile = user_credentials[v].signed_up
    /\ \A u \in Users :
         u <= user_credentials[v].after /\ ~user_credentials[u].updated
         => Differs(u, user_credentials[v].signed_up, Len(Checked))

CheckedApart ==
  \A w \in Worker : Asked(w).type = "signup" =>
    /\ Asked(w).after <= Len(user_credentials)
    /\ At(w, "insert_user") => handler[w].checks = Len(Checked)
    /\ \A u \in Users :
         u <= Asked(w).after /\ ~user_credentials[u].updated
         => Differs(u, Asked(w).profile, handler[w].checks)

SignupInv == TypeOK /\ RowsApart /\ CheckedApart

LEMMA SignupInit == Init => SignupInv
<1> SUFFICES ASSUME Init PROVE SignupInv
  OBVIOUS
<1>1. Users = {} /\ \A w \in Worker : Asked(w).type = "none"
  BY DEF Init, Users, Asked, Idle, NoRequest
<1>2. QED
  BY <1>1, TypeInit DEF SignupInv, RowsApart, CheckedApart

\* Rows that were not updated before and now keep what the invariant reads.
RowsKept ==
  /\ Users' = Users /\ Len(user_credentials') = Len(user_credentials)
  /\ \A u \in Users :
       /\ user_credentials'[u].after = user_credentials[u].after
       /\ user_credentials'[u].signed_up = user_credentials[u].signed_up
       /\ ~user_credentials'[u].updated =>
            ~user_credentials[u].updated /\ user_credentials'[u].profile = user_credentials[u].profile

LEMMA SignupRowsKept ==
  ASSUME RowsApart, RowsKept
  PROVE  RowsApart'
  BY DEF RowsKept, RowsApart, Differs

\* Handlers of signups stay as they are, if they do not end.
LEMMA SignupHandlersKept ==
  ASSUME CheckedApart, RowsKept,
         \A v \in Worker : Asked(v)'.type = "signup" => handler'[v] = handler[v]
  PROVE  CheckedApart'
<1>1. ASSUME NEW v \in Worker, Asked(v)'.type = "signup"
      PROVE  handler'[v] = handler[v] /\ Asked(v)' = Asked(v)
  BY <1>1 DEF Asked
<1>2. QED
  BY <1>1 DEF CheckedApart, RowsKept, Differs, At

LEMMA SignupStep ==
  ASSUME SignupInv, TypeOK', NEW w \in Worker, Handle(w)
  PROVE  SignupInv'
<1>1. TypeOK /\ RowsApart /\ CheckedApart
  BY DEF SignupInv
<1>2. UNCHANGED user_credentials => RowsKept
  BY DEF RowsKept, Users
<1>3. CASE process(w)
  <2>1. UNCHANGED user_credentials /\ Users' = Users
    BY <1>1, <1>3, ProcessStep
  <2>2. ASSUME NEW v \in Worker, Asked(v)'.type = "signup"
        PROVE  /\ Asked(v)'.after <= Len(user_credentials)
               /\ At(v, "insert_user")' => handler'[v].checks = Len(Checked)
               /\ \A u \in Users :
                    u <= Asked(v)'.after /\ ~user_credentials[u].updated
                    => \A k \in 1..handler'[v].checks :
                         user_credentials[u].profile[Checked[k]] # Asked(v)'.profile[Checked[k]]
    <3>1. CASE v = w
      BY <1>1, <1>3, <2>2, <3>1, ProcessStep, UsersAre DEF At
    <3>2. CASE v # w
      <4>1. handler'[v] = handler[v] /\ Asked(v)' = Asked(v)
        BY <1>1, <1>3, <3>2, ProcessStep DEF Asked
      <4>2. QED
        BY <1>1, <2>2, <4>1 DEF CheckedApart, Differs, At
    <3>3. QED
      BY <3>1, <3>2
  <2>3. CheckedApart'
    BY <2>1, <2>2 DEF CheckedApart, Differs
  <2>4. QED
    BY <1>1, <1>2, <2>1, <2>3, SignupRowsKept DEF SignupInv
<1> SUFFICES ASSUME ~process(w)
             PROVE  SignupInv'
  BY <1>3
<1>4. Frame(w)
  BY <1>1, StepFrame
<1>5. ASSUME RowsKept, Asked(w).type # "signup" \/ handler'[w] = Idle
      PROVE  SignupInv'
  <2>1. \A v \in Worker : Asked(v)'.type = "signup" => handler'[v] = handler[v]
    BY <1>4, <1>5 DEF Frame, Asked, Idle, NoRequest
  <2>2. QED
    BY <1>1, <1>5, <2>1, SignupRowsKept, SignupHandlersKept DEF SignupInv
<1>6. CASE check_exists(w)
  <2>1. UNCHANGED user_credentials /\ Users' = Users
    BY <1>6 DEF check_exists, check_exists_Body, tables, Users
  <2>2. CASE Answer(w)
    BY <1>1, <1>2, <1>5, <2>1, <2>2, Ends DEF TypeOK
  <2> DEFINE k == handler[w].checks + 1
             f == Checked[k]
             at == IF k = Len(Checked) THEN "insert_user" ELSE handler[w].at
             h == [handler[w] EXCEPT !.checks = k, !.at = at]
  <2>3. CASE Holders(f, Asked(w).profile[f]) = {} /\ handler' = [handler EXCEPT ![w] = h]
    <3>1. /\ handler[w] \in HandlerState /\ handler \in [Worker -> HandlerState]
          /\ Asked(w).type = "signup" /\ handler[w].at = "check_exists"
          /\ handler[w].checks \in Nat
      BY <1>1, <1>6, HandlerKinds DEF check_exists, check_exists_Body, At, TypeOK
    <3>2. handler'[w] = h /\ h.checks = k /\ h.at = at /\ Asked(w)' = Asked(w)
      BY <2>3, <3>1 DEF HandlerState, Asked
    <3>3. \A u \in Users : user_credentials[u].profile[f] # Asked(w).profile[f]
      BY <2>3 DEF Holders
    <3>4. \A u \in Users :
            u <= Asked(w).after /\ ~user_credentials[u].updated
            => \A j \in 1..k : user_credentials[u].profile[Checked[j]] # Asked(w).profile[Checked[j]]
      <4>1. \A j \in 1..k : j = k \/ j \in 1..handler[w].checks
        BY <3>1
      <4>2. QED
        BY <1>1, <3>1, <3>3, <4>1 DEF CheckedApart, Differs
    <3>5. at = "insert_user" => k = Len(Checked)
      BY <3>1
    <3>6. Asked(w).after <= Len(user_credentials)
      BY <1>1, <3>1 DEF CheckedApart
    <3>7. ASSUME NEW v \in Worker, Asked(v)'.type = "signup"
          PROVE  /\ Asked(v)'.after <= Len(user_credentials)
                 /\ At(v, "insert_user")' => handler'[v].checks = Len(Checked)
                 /\ \A u \in Users :
                      u <= Asked(v)'.after /\ ~user_credentials[u].updated
                      => \A j \in 1..handler'[v].checks :
                           user_credentials[u].profile[Checked[j]] # Asked(v)'.profile[Checked[j]]
      <4>1. CASE v = w
        <5>1. handler'[v].checks = k /\ handler'[v].at = at /\ Asked(v)' = Asked(w)
          BY <3>2, <4>1
        <5>2. At(v, "insert_user")' => handler'[v].checks = Len(Checked)
          BY <3>5, <5>1 DEF At
        <5>3. QED
          BY <3>4, <3>6, <5>1, <5>2
      <4>2. CASE v # w
        <5>1. handler'[v] = handler[v] /\ Asked(v)' = Asked(v)
          BY <1>4, <4>2 DEF Frame, Asked
        <5>2. QED
          BY <1>1, <3>7, <5>1 DEF CheckedApart, Differs, At
      <4>3. QED
        BY <4>1, <4>2
    <3>8. CheckedApart'
      BY <2>1, <3>7 DEF CheckedApart, Differs
    <3>9. QED
      BY <1>1, <1>2, <2>1, <3>8, SignupRowsKept DEF SignupInv
  <2>4. QED
    BY <1>1, <1>6, <2>2, <2>3 DEF check_exists, check_exists_Body, TypeOK
<1>7. CASE insert_user(w)
  <2>1. handler'[w] = Idle
    <3>1. ~Caught(w)
      BY <1>1, <1>7, HandlerKinds DEF insert_user, At, Caught
    <3>2. handler' = [handler EXCEPT ![w] = Idle]
      BY <1>7, <3>1, Ends, FailureIs DEF insert_user
    <3>3. QED
      BY <1>1, <3>2 DEF TypeOK
  <2>2. CASE UNCHANGED user_credentials
    BY <1>2, <1>5, <2>1, <2>2
  <2>3. CASE user_credentials' # user_credentials
    <3> DEFINE n == Len(user_credentials) + 1
               row == NewRow(w)
    <3>1. /\ Users' = Users \cup {n} /\ n \notin Users /\ user_credentials'[n] = row
          /\ \A v \in Users : user_credentials'[v] = user_credentials[v]
          /\ row \in UserRow
      BY <1>1, <1>7, <2>3, InsertStep
    <3>2. /\ row.after = Asked(w).after /\ row.signed_up = Asked(w).profile
          /\ row.profile = Asked(w).profile
      BY DEF NewRow
    <3>3. /\ Asked(w).type = "signup" /\ handler[w].checks = Len(Checked) /\ Asked(w).after \in Nat
          /\ Asked(w).after <= Len(user_credentials)
          /\ \A u \in Users : u <= Asked(w).after /\ ~user_credentials[u].updated
                             => Differs(u, Asked(w).profile, Len(Checked))
      BY <1>1, <1>7, HandlerKinds DEF insert_user, At, Kinds, CheckedApart
    <3>4. /\ Users = 1..Len(user_credentials) /\ Len(user_credentials) \in Nat
          /\ Users' = 1..Len(user_credentials') /\ Len(user_credentials') = n
          /\ \A v \in Users : user_credentials[v].after \in Nat
      <4>1. /\ Users = 1..Len(user_credentials) /\ Len(user_credentials) \in Nat
            /\ \A v \in Users : user_credentials[v] \in UserRow
        BY <1>1, UsersAre
      <4>2. Users' = 1..Len(user_credentials') /\ Len(user_credentials') \in Nat
        BY DEF TypeOK, Users
      <4>3. Len(user_credentials') >= n
        BY <3>1, <4>1, <4>2
      <4>4. Len(user_credentials') <= n
        <5>1. Len(user_credentials') \in Users'
          BY <4>1, <4>2, <4>3
        <5>2. QED
          BY <3>1, <4>1, <5>1
      <4>5. Len(user_credentials') = n
        BY <4>1, <4>2, <4>3, <4>4
      <4>6. \A v \in Users : user_credentials[v].after \in Nat
        BY <4>1 DEF UserRow
      <4>7. QED
        BY <4>1, <4>2, <4>5, <4>6
    <3>5. RowsApart'
      <4>1. ASSUME NEW v \in Users', NEW u \in Users', u <= user_credentials'[v].after
            PROVE  u \in Users
        BY <1>1, <3>1, <3>2, <3>3, <3>4, <4>1 DEF RowsApart
      <4>2. ASSUME NEW v \in Users'
            PROVE  user_credentials'[v].after < v
        BY <1>1, <3>1, <3>2, <3>3, <3>4 DEF RowsApart
      <4>3. ASSUME NEW v \in Users'
            PROVE  ~user_credentials'[v].updated =>
                     user_credentials'[v].profile = user_credentials'[v].signed_up
        BY <1>1, <3>1, <3>2 DEF RowsApart
      <4>4. ASSUME NEW v \in Users', NEW u \in Users', u <= user_credentials'[v].after,
                   ~user_credentials'[u].updated, NEW k \in 1..Len(Checked)
            PROVE  user_credentials'[u].profile[Checked[k]]
                     # user_credentials'[v].signed_up[Checked[k]]
        <5>1. u \in Users /\ user_credentials'[u] = user_credentials[u]
          BY <3>1, <4>1, <4>4
        <5>2. CASE v = n
          BY <3>1, <3>2, <3>3, <4>4, <5>1, <5>2 DEF Differs
        <5>3. CASE v \in Users
          BY <1>1, <3>1, <4>4, <5>1, <5>3 DEF RowsApart, Differs
        <5>4. QED
          BY <3>1, <5>2, <5>3
      <4>5. QED
        BY <4>2, <4>3, <4>4 DEF RowsApart, Differs
    <3>6. CheckedApart'
      <4>1. ASSUME NEW v \in Worker, Asked(v)'.type = "signup"
            PROVE  /\ v # w /\ handler'[v] = handler[v] /\ Asked(v)' = Asked(v)
                   /\ Asked(v).after <= Len(user_credentials) /\ Asked(v).after \in Nat
        <5>1. v # w /\ handler'[v] = handler[v] /\ Asked(v)' = Asked(v)
          BY <1>4, <2>1, <4>1 DEF Frame, Asked, Idle, NoRequest
        <5>2. QED
          BY <1>1, <4>1, <5>1, HandlerKinds DEF CheckedApart, Kinds
      <4>2. ASSUME NEW v \in Worker, Asked(v)'.type = "signup", NEW u \in Users',
                   u <= Asked(v)'.after
            PROVE  u \in Users /\ user_credentials'[u] = user_credentials[u]
        BY <3>1, <3>4, <4>1, <4>2
      <4>3. QED
        BY <1>1, <3>4, <4>1, <4>2 DEF CheckedApart, Differs, At
    <3>7. QED
      BY <3>5, <3>6 DEF SignupInv
  <2>4. QED
    BY <2>2, <2>3
<1>8. CASE update_password(w)
  <2>1. Asked(w).type # "signup"
    BY <1>1, <1>8, HandlerKinds DEF update_password, At
  <2>2. RowsKept
    <3> DEFINE u == handler[w].user
               row == [user_credentials[u] EXCEPT !.password = Asked(w).new_password]
    <3>1. user_credentials' = [user_credentials EXCEPT ![u] = row]
      BY <1>8 DEF update_password
    <3>2. /\ Users' = Users /\ Len(user_credentials') = Len(user_credentials)
          /\ \A v \in Users : user_credentials'[v] = IF v = u THEN row ELSE user_credentials[v]
      <4>1. user_credentials \in Seq(UserRow)
        BY <1>1 DEF TypeOK
      <4>2. QED
        BY <3>1, <4>1 DEF Users
    <3>3. u \in Users => /\ row.after = user_credentials[u].after
                         /\ row.signed_up = user_credentials[u].signed_up
                         /\ row.updated = user_credentials[u].updated
                         /\ row.profile = user_credentials[u].profile
      BY <1>1, UsersAre DEF UserRow
    <3>4. QED
      BY <3>2, <3>3 DEF RowsKept
  <2>3. QED
    BY <1>5, <2>1, <2>2
<1>9. CASE update_profile(w)
  <2> DEFINE u == handler[w].user
  <2>1. u \in Users /\ Asked(w).type = "update" /\ Asked(w).profile \in Profile
    BY <1>1, <1>9, HandlerKinds DEF update_profile, At, TypeOK, HandlerOK, Kinds
  <2>2. CASE user_credentials' = [user_credentials EXCEPT ![u] = UpdatedRow(w)]
    <3>1. /\ Users' = Users /\ Len(user_credentials') = Len(user_credentials)
          /\ user_credentials'[u] = UpdatedRow(w)
          /\ \A v \in Users \ {u} : user_credentials'[v] = user_credentials[v]
          /\ user_credentials[u] \in UserRow
      BY <1>1, <2>1, <2>2, UsersAre DEF Users, TypeOK
    <3>2. /\ UpdatedRow(w).after = user_credentials[u].after
          /\ UpdatedRow(w).signed_up = user_credentials[u].signed_up
          /\ UpdatedRow(w).updated = (\/ user_credentials[u].updated
                                     \/ Asked(w).profile # handler[w].read)
          /\ UpdatedRow(w).profile =
               Updated(user_credentials[u].profile, handler[w].read, Asked(w).profile)
      BY <3>1 DEF UpdatedRow, UserRow
    <3>3. Asked(w).profile = handler[w].read =>
            Updated(user_credentials[u].profile, handler[w].read, Asked(w).profile)
              = user_credentials[u].profile
      BY <3>1 DEF Updated, UserRow, Profile
    <3>4. RowsKept
      BY <3>1, <3>2, <3>3 DEF RowsKept
    <3>5. QED
      BY <1>5, <2>1, <3>4
  <2>3. CASE UNCHANGED user_credentials
    BY <1>2, <1>5, <2>1, <2>3
  <2>4. QED
    BY <1>9, <2>2, <2>3 DEF update_profile, UpdatedRow
<1>10. CASE /\ UNCHANGED user_credentials
            /\ handler[w].at \notin {"check_exists", "insert_user"} \/ fail(w)
  <2>1. handler'[w] = Idle \/ Asked(w).type # "signup"
    BY <1>1, <1>10, HandlerKinds DEF fail, Failure, Caught, NoAnswer, TypeOK
  <2>2. QED
    BY <1>2, <1>5, <1>10, <2>1
<1>11. QED
  <2>1. CASE Quiet(w) /\ ~check_exists(w)
    BY <1>10, <2>1, QuietStep
       DEF Quiet, select_user, select_token, select_token_Body, insert_token, select_password,
           select_profile, get_user_profile, At
  <2>2. CASE change_password_response(w) \/ update_profile_response(w) \/ error_response(w)
    BY <1>10, <2>2 DEF change_password_response, update_profile_response, error_response, tables, At
  <2>3. QED
    BY <1>6, <1>7, <1>8, <1>9, <2>1, <2>2 DEF Handle, Quiet

LEMMA SignupNext == SignupInv /\ [Next]_vars => SignupInv'
<1> SUFFICES ASSUME SignupInv, [Next]_vars
             PROVE  SignupInv'
  OBVIOUS
<1>1. TypeOK /\ TypeOK'
  BY TypeNext DEF SignupInv
<1>2. ASSUME NEW w \in Worker, Handle(w)
      PROVE  SignupInv'
  BY <1>1, <1>2, SignupStep
<1>3. CASE exit \/ UNCHANGED vars
  <2>1. RowsKept
    BY <1>3 DEF exit, vars, tables, RowsKept, Users
  <2>2. \A v \in Worker : Asked(v)'.type = "signup" => handler'[v] = handler[v]
    BY <1>3 DEF exit, vars, Asked, Idle, NoRequest
  <2>3. QED
    BY <1>1, <2>1, <2>2, SignupRowsKept, SignupHandlersKept DEF SignupInv
<1>4. QED
  BY <1>2, <1>3 DEF Next

\* No signup takes a checked field of a user who was there when it was taken and
\* whose profile was never updated.
THEOREM SignupsTakeFree == Spec => []SignupTakesFree
<1>1. SignupInv => SignupTakesFree
  BY DEF SignupInv, RowsApart, Differs, SignupTakesFree
<1>2. QED
  BY <1>1, SignupInit, SignupNext, PTL DEF Spec

------------------------------------------------------------------------------
(* Answers to signups, if the database only fails for a key. *)

\* The keys are on fields a signup looks for, and no statement fails otherwise.
KeysLookedFor ==
  /\ ~Fails
  /\ \A f \in Keyed : \E k \in DOMAIN Checked : Checked[k] = f

\* A signup that ends without an answer has met a key.
LEMMA WhoIsSilent ==
  ASSUME KeysLookedFor, TypeOK, [Next]_vars, "signup" \in silent' \ silent
  PROVE  \E w \in Worker :
           /\ insert_user(w)
           /\ \E k \in 1..Len(Checked) : Holders(Checked[k], Asked(w).profile[Checked[k]]) # {}
<1>1. PICK w \in Worker : Handle(w)
  BY DEF Next, exit, vars
<1>2. UNCHANGED silent \/ NoAnswer(w)
  <2>1. \/ UNCHANGED silent
        \/ Answer(w) \/ NoAnswer(w) \/ Failure(w) \/ \E place : Goto(w, place)
    BY <1>1 DEF Handle, process, check_exists, check_exists_Body, insert_user, select_user,
       select_token, select_token_Body, insert_token, select_password, update_password,
       change_password_response, select_profile, update_profile, update_profile_response,
       get_user_profile, error_response, fail
  <2>2. QED
    BY <2>1 DEF Answer, Failure, Goto
<1>3. Asked(w).type = "signup"
  BY <1>2 DEF NoAnswer
<1>4. CASE check_exists(w)
  BY <1>4 DEF check_exists, check_exists_Body, Answer
<1>5. CASE insert_user(w)
  <2>1. PICK f \in Field : KeyTaken(f, Asked(w).profile[f], Len(user_credentials) + 1)
    BY <1>5 DEF insert_user, Answer, KeysLookedFor
  <2>2. f \in Keyed /\ Holders(f, Asked(w).profile[f]) # {}
    BY <2>1 DEF KeyTaken
  <2>3. \E k \in 1..Len(Checked) : Checked[k] = f
    BY <2>2 DEF KeysLookedFor
  <2>4. QED
    BY <1>5, <2>2, <2>3
<1>6. ~process(w) /\ ~fail(w)
  BY <1>3, HandlerKinds DEF process, fail, KeysLookedFor
<1>7. QED
  BY <1>1, <1>3, <1>4, <1>5, <1>6, HandlerKinds DEF Handle, select_user, select_token,
     select_token_Body, insert_token, select_password, update_password, change_password_response,
     select_profile, update_profile, update_profile_response, get_user_profile, error_response,
     Caught, At

\* No signup goes unanswered before, after one was taken, somebody else has signed
\* up with a value it asks for, or a user who has it has changed his profile.
OvertakenOnly ==
  "signup" \in silent' \ silent =>
    \E w \in Worker, u \in Users, k \in DOMAIN Checked :
      /\ At(w, "insert_user")
      /\ u > Asked(w).after \/ user_credentials[u].updated
      /\ user_credentials[u].profile[Checked[k]] = Asked(w).profile[Checked[k]]

\* However many workers there are, the first signup that signup_request leaves
\* unanswered has been overtaken between its look for a value and its insert.
THEOREM SilentWhenOvertaken == ASSUME KeysLookedFor PROVE Spec => [][OvertakenOnly]_vars
<1>1. SignupInv /\ [Next]_vars => [OvertakenOnly]_vars
  <2> SUFFICES ASSUME SignupInv, [Next]_vars, "signup" \in silent' \ silent
               PROVE  \E w \in Worker, u \in Users, k \in DOMAIN Checked :
                        /\ At(w, "insert_user")
                        /\ u > Asked(w).after \/ user_credentials[u].updated
                        /\ user_credentials[u].profile[Checked[k]] = Asked(w).profile[Checked[k]]
    BY DEF OvertakenOnly
  <2>1. TypeOK
    BY DEF SignupInv
  <2>2. PICK w \in Worker, k \in 1..Len(Checked) :
          insert_user(w) /\ Holders(Checked[k], Asked(w).profile[Checked[k]]) # {}
    BY <2>1, WhoIsSilent
  <2>3. PICK u \in Users :
          user_credentials[u].profile[Checked[k]] = Asked(w).profile[Checked[k]]
    BY <2>2 DEF Holders
  <2>4. At(w, "insert_user") /\ Asked(w).type = "signup"
    BY <2>1, <2>2, HandlerKinds DEF insert_user, At
  <2>5. /\ Asked(w).after \in Nat /\ u \in Nat
        /\ u <= Asked(w).after /\ ~user_credentials[u].updated
           => Differs(u, Asked(w).profile, Len(Checked))
    BY <2>1, <2>4, HandlerKinds, UsersAre DEF SignupInv, CheckedApart, Kinds
  <2>6. u > Asked(w).after \/ user_credentials[u].updated
    BY <2>3, <2>5 DEF Differs
  <2>7. k \in DOMAIN Checked
    OBVIOUS
  <2>8. QED
    BY <2>3, <2>4, <2>6, <2>7
<1>2. QED
  BY <1>1, SignupInit, SignupNext, PTL DEF Spec

\* With one worker nobody can: what its signup has looked for stays free.
OneWorker == \A v, w \in Worker : v = w

CheckedFree ==
  \A w \in Worker : Asked(w).type = "signup" =>
    /\ \A k \in 1..handler[w].checks : Holders(Checked[k], Asked(w).profile[Checked[k]]) = {}
    /\ At(w, "insert_user") => handler[w].checks = Len(Checked)

LEMMA FreeStays ==
  ASSUME OneWorker, TypeOK, CheckedFree, [Next]_vars
  PROVE  CheckedFree'
<1> SUFFICES ASSUME NEW w \in Worker, Asked(w)'.type = "signup"
             PROVE  /\ \A k \in 1..handler'[w].checks :
                         Holders(Checked[k], Asked(w).profile[Checked[k]])' = {}
                    /\ At(w, "insert_user")' => handler'[w].checks = Len(Checked)
  BY DEF CheckedFree
<1>0. handler \in [Worker -> HandlerState] /\ handler'[w] # Idle
  BY DEF TypeOK, Asked, Idle, NoRequest
<1>1. CASE UNCHANGED <<handler, user_credentials>>
  BY <1>1 DEF CheckedFree, Holders, Users, Asked, At
<1>2. CASE process(w)
  <2>1. PICK r \in Request({Len(user_credentials)}) :
          handler' = [handler EXCEPT ![w] =
            [Idle EXCEPT !.at = FirstStep(r.type), !.request = r,
                         !.user = IF r.type \in {"change", "update"} THEN r.user_id ELSE 0]]
    BY <1>2 DEF process
  <2>2. r.type = "signup" /\ handler'[w].checks = 0 /\ handler'[w].at = FirstStep(r.type)
    BY <1>0, <2>1 DEF Asked, Idle
  <2>3. QED
    BY <2>2 DEF FirstStep, At
<1>3. CASE check_exists(w)
  <2> DEFINE k == handler[w].checks + 1
             p == Asked(w).profile
  <2>1. /\ Holders(Checked[k], p[Checked[k]]) = {}
        /\ handler'[w] = [handler[w] EXCEPT !.checks = k,
                            !.at = IF k = Len(Checked) THEN "insert_user" ELSE @]
        /\ UNCHANGED user_credentials /\ At(w, "check_exists")
    BY <1>0, <1>3, Ends DEF check_exists, check_exists_Body, tables
  <2>2. /\ handler'[w].checks = k /\ Asked(w)' = Asked(w) /\ Asked(w).type = "signup"
        /\ At(w, "insert_user")' => k = Len(Checked)
        /\ handler[w].checks \in Nat
    BY <1>0, <2>1, HandlerKinds DEF HandlerState, Asked, At
  <2>3. \A f, v : Holders(f, v)' = Holders(f, v)
    BY <2>1 DEF Holders, Users
  <2>4. PICK q : q = p
    OBVIOUS
  <2>5. ASSUME NEW j \in 1..k
        PROVE  Holders(Checked[j], q[Checked[j]]) = {}
    <3>1. CASE j = k
      BY <2>1, <2>4, <3>1
    <3>2. CASE j # k
      <4>1. j \in 1..handler[w].checks
        BY <2>2, <3>2
      <4>2. QED
        BY <2>2, <2>4, <4>1 DEF CheckedFree
    <3>3. QED
      BY <3>1, <3>2
  <2>6. QED
    BY <2>2, <2>3, <2>4, <2>5
<1>4. ASSUME Handle(w), ~process(w), ~check_exists(w)
      PROVE  FALSE
  <2>1. Asked(w).type = "signup"
    BY <1>0, <1>4, StepFrame DEF Frame, Asked
  <2>2. insert_user(w) \/ fail(w)
    BY <1>4, <2>1, HandlerKinds DEF Handle, select_user, select_token, select_token_Body,
       insert_token, select_password, update_password, change_password_response, select_profile,
       update_profile, update_profile_response, get_user_profile, error_response, Caught, At
  <2>3. QED
    BY <1>0, <2>1, <2>2, Ends DEF insert_user, fail, Failure, Caught
<1>5. CASE exit
  BY <1>0, <1>5 DEF exit
<1>6. QED
  BY <1>1, <1>2, <1>3, <1>4, <1>5 DEF OneWorker, Next, vars, tables

\* Every signup is answered when one worker serves all clients.  The run
\* account_race shows that two workers are enough to break that.
THEOREM AnsweredAlone ==
  ASSUME KeysLookedFor, OneWorker
  PROVE  Spec => []SignupAnswered
<1>1. Init => TypeOK /\ CheckedFree /\ SignupAnswered
  BY TypeInit DEF Init, CheckedFree, SignupAnswered, Asked, Idle, NoRequest
<1>2. TypeOK /\ CheckedFree /\ SignupAnswered /\ [Next]_vars
        => (TypeOK /\ CheckedFree /\ SignupAnswered)'
  <2> SUFFICES ASSUME TypeOK, CheckedFree, SignupAnswered, [Next]_vars, ~SignupAnswered'
               PROVE  FALSE
    BY TypeNext, FreeStays
  <2>1. PICK w \in Worker, k \in 1..Len(Checked) :
          insert_user(w) /\ Holders(Checked[k], Asked(w).profile[Checked[k]]) # {}
    BY WhoIsSilent DEF SignupAnswered
  <2>2. At(w, "insert_user") /\ Asked(w).type = "signup"
    BY <2>1, HandlerKinds DEF insert_user, At
  <2>3. QED
    BY <2>1, <2>2 DEF CheckedFree
<1>3. QED
  BY <1>1, <1>2, PTL DEF Spec
==============================================================================
