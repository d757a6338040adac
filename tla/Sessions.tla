------------------------------ MODULE Sessions ------------------------------
(***************************************************************************)
(* Sessions of users: the login with its layers, the refresh tokens that   *)
(* rotate, logging out, the kill switch of the platform, and the second    *)
(* factor.  Access tokens live for a day whatever happens here and are     *)
(* left out; so is the expiry of refresh tokens.                           *)
(***************************************************************************)
EXTENDS Workers

CONSTANTS
  Users,
  Tokens,       \* jti of refresh tokens
  MaxFailures   \* AXES_FAILURE_LIMIT

ASSUME SessionsAssumption == MaxFailures \in Nat \ {0}

VARIABLES
  accounts,    \* users, and whether their store is open
  token,       \* outstanding tokens and the blacklist
  held,        \* tokens that were delivered to a browser
  kicked,      \* history: logins that a kill switch listed and blacklisted
  raced        \* history: logins with a rotation in flight while a kill switch ran

sessionVars == <<accounts, token, held, kicked, raced>>

Account == [active : BOOLEAN, open : BOOLEAN, second : {"off", "pending", "on"},
            codes : BOOLEAN, mustChange : BOOLEAN, failures : 0..MaxFailures]
Token == [state : {"none", "live", "dead"}, user : Users, root : Tokens]

SessionsInit ==
  /\ accounts = [u \in Users |-> [active |-> TRUE, open |-> TRUE, second |-> "off",
                                  codes |-> FALSE, mustChange |-> FALSE, failures |-> 0]]
  /\ token \in [Tokens -> {t \in Token : t.state = "none"}]
  /\ \A t \in Tokens : token[t].root = t /\ token[t].user = CHOOSE u \in Users : TRUE
  /\ held = {} /\ kicked = {} /\ raced = {}

\* Tokens that AdminSessionsView shows, and the kill switch lists: issued and not blacklisted.
ActiveTokens(users) == {t \in Tokens : token[t].state = "live" /\ token[t].user \in users}

Issued(t, u, root) == [token EXCEPT ![t] = [state |-> "live", user |-> u, root |-> root]]

Blacklisted(ts) == [t \in Tokens |-> IF t \in ts THEN [token[t] EXCEPT !.state = "dead"] ELSE token[t]]

Refreshing == {w \in Workers : req[w].at \in {"refresh.blacklist", "refresh.issue"}}
Kicking == {w \in Workers : req[w].at = "kick.blacklist"}

----------------------------------------------------------------------------
(* Logging in: lockout, password, suspended store, IP allowlist, second factor. *)

Locked(u) == accounts[u].failures = MaxFailures

FailLogin(w, u) ==
  /\ AtOnce(w)
  /\ ~Locked(u)
  /\ accounts' = [accounts EXCEPT ![u].failures = @ + 1]
  /\ UNCHANGED <<token, held, kicked, raced>>

\* AXES_COOLOFF_TIME passed.
CoolOff(w, u) ==
  /\ AtOnce(w)
  /\ Locked(u)
  /\ accounts' = [accounts EXCEPT ![u].failures = 0]
  /\ UNCHANGED <<token, held, kicked, raced>>

\* The refresh token is issued with the password, before the other layers answer.
PassPassword(w, u) ==
  /\ ~Locked(u) /\ accounts[u].active
  /\ \E t \in Tokens :
       /\ token[t].state = "none"
       /\ token' = Issued(t, u, t)
       /\ Begin(w, [at |-> "login", tok |-> t])
  /\ UNCHANGED <<accounts, held, kicked, raced>>

Refuse(w) == At(w, "login") /\ Answer(w) /\ UNCHANGED <<token, held, kicked, raced>>

RefuseSuspended(w) ==
  /\ Refuse(w)
  /\ ~accounts[token[req[w].tok].user].open
  /\ UNCHANGED accounts

\* The password was right: the failures are forgotten, also when the address or the code is refused.
RefuseAddressOrCode(w) ==
  LET u == token[req[w].tok].user IN
  /\ Refuse(w)
  /\ accounts[u].open
  /\ accounts' = [accounts EXCEPT ![u].failures = 0]

\* The code may be a backup code, and the last of them.
Deliver(w) ==
  LET u == token[req[w].tok].user IN
  /\ At(w, "login")
  /\ accounts[u].open
  /\ \E left \in IF accounts[u].second = "on" THEN {accounts[u].codes, FALSE} ELSE {accounts[u].codes} :
       accounts' = [accounts EXCEPT ![u].failures = 0, ![u].codes = left]
  /\ held' = held \cup {req[w].tok}
  /\ Answer(w)
  /\ UNCHANGED <<token, kicked, raced>>

----------------------------------------------------------------------------
(* Rotation: the token is checked, blacklisted and followed by another, in three statements. *)

\* Mutant: a blacklisted token is accepted.
Known(t) == token[t].state # "none"

Usable(t) == token[t].state = "live"

Refresh(w, t) ==
  /\ t \in held /\ Usable(t)
  /\ accounts[token[t].user].active
  /\ Begin(w, [at |-> "refresh.blacklist", tok |-> t])
  /\ raced' = IF Kicking # {} THEN raced \cup {token[t].root} ELSE raced
  /\ UNCHANGED <<accounts, token, held, kicked>>

BlacklistOld(w) ==
  /\ At(w, "refresh.blacklist")
  /\ token' = Blacklisted({req[w].tok})
  /\ Proceed(w, [req[w] EXCEPT !.at = "refresh.issue"])
  /\ UNCHANGED <<accounts, held, kicked, raced>>

IssueNext(w) ==
  /\ At(w, "refresh.issue")
  /\ \E t \in Tokens :
       /\ token[t].state = "none"
       /\ token' = Issued(t, token[req[w].tok].user, token[req[w].tok].root)
       /\ held' = held \cup {t}
  /\ Answer(w)
  /\ UNCHANGED <<accounts, kicked, raced>>

Logout(w, t) ==
  /\ AtOnce(w)
  /\ t \in held
  /\ token' = Blacklisted({t})
  /\ UNCHANGED <<accounts, held, kicked, raced>>

----------------------------------------------------------------------------
(* The kill switch, for a user or for all users of a store: it lists, blacklists, and logs. *)

ListTokens(w, users) ==
  /\ Begin(w, [at |-> "kick.blacklist", toks |-> ActiveTokens(users)])
  /\ raced' = raced \cup {token[req[x].tok].root : x \in Refreshing}
  /\ UNCHANGED <<accounts, token, held, kicked>>

BlacklistListed(w) ==
  /\ At(w, "kick.blacklist")
  /\ token' = Blacklisted(req[w].toks)
  /\ kicked' = kicked \cup {token[t].root : t \in req[w].toks}
  /\ Answer(w)
  /\ UNCHANGED <<accounts, held, raced>>

----------------------------------------------------------------------------
(* Accounts. *)

Changed(w, u, now) ==
  /\ AtOnce(w)
  /\ accounts' = [accounts EXCEPT ![u] = now]
  /\ UNCHANGED <<token, held, kicked, raced>>

SetUpSecond(w, u) == accounts[u].second # "on" /\ Changed(w, u, [accounts[u] EXCEPT !.second = "pending"])

\* _issue_backup_codes: a fresh set in place of what was left.
WithCodes(account) == [account EXCEPT !.codes = TRUE]

VerifySecond(w, u) ==
  accounts[u].second = "pending" /\ Changed(w, u, WithCodes([accounts[u] EXCEPT !.second = "on"]))

RegenerateCodes(w, u) == accounts[u].second = "on" /\ Changed(w, u, WithCodes(accounts[u]))

DisableSecond(w, u) == Changed(w, u, [accounts[u] EXCEPT !.second = "off", !.codes = FALSE])

\* Sudo's first button leaves the backup codes, its second one clears them too.
AdminDisableSecond(w, u) == Changed(w, u, [accounts[u] EXCEPT !.second = "off"])
AdminClearSecond(w, u) == Changed(w, u, [accounts[u] EXCEPT !.second = "off", !.codes = FALSE])

\* The sessions that are open stay so.
RenewPassword(w, u) == Changed(w, u, [accounts[u] EXCEPT !.mustChange = TRUE])
ChangePassword(w, u) == Changed(w, u, [accounts[u] EXCEPT !.mustChange = FALSE])

SetActive(w, u) == Changed(w, u, [accounts[u] EXCEPT !.active = ~@])
SetOpen(w, u) == Changed(w, u, [accounts[u] EXCEPT !.open = ~@])

AccountSteps(w, u) ==
  \/ SetUpSecond(w, u) \/ VerifySecond(w, u) \/ RegenerateCodes(w, u)
  \/ DisableSecond(w, u) \/ AdminDisableSecond(w, u) \/ AdminClearSecond(w, u)
  \/ RenewPassword(w, u) \/ ChangePassword(w, u) \/ SetActive(w, u) \/ SetOpen(w, u)

DieInSession(w) == Crash(w) /\ UNCHANGED sessionVars

SessionsNext ==
  \E w \in Workers :
    \/ \E u \in Users : FailLogin(w, u) \/ CoolOff(w, u) \/ PassPassword(w, u) \/ AccountSteps(w, u)
    \/ RefuseSuspended(w) \/ RefuseAddressOrCode(w) \/ Deliver(w)
    \/ \E t \in Tokens : Refresh(w, t) \/ Logout(w, t)
    \/ BlacklistOld(w) \/ IssueNext(w)
    \/ \E users \in {{u} : u \in Users} \cup {Users} : ListTokens(w, users)
    \/ BlacklistListed(w) \/ DieInSession(w)

SessionsSpec == SlotsInit /\ SessionsInit /\ [][SessionsNext]_<<slots, sessionVars>>

SessionsTypeOK ==
  /\ accounts \in [Users -> Account]
  /\ token \in [Tokens -> Token]
  /\ held \subseteq Tokens /\ kicked \subseteq Tokens /\ raced \subseteq Tokens

\* After a kill switch no token that descends from a login it listed is accepted again, unless a
\* rotation of that login was in flight while it ran: that one may leave a live token behind.
LoggedOutStays ==
  \A t \in Tokens : token[t].state = "live" /\ token[t].root \in kicked => token[t].root \in raced
=============================================================================
