------------------------------ MODULE Account ------------------------------
(***************************************************************************)
(* What a machine holds of an account: the credentials of `drums login`    *)
(* (login.rs), read again by everything that talks to a console            *)
(* (account.rs, dispatch.rs, sync.rs, behavior_source.rs, main.rs), and    *)
(* the key of `drums activate` (license.rs).  The console is outside: it   *)
(* answers a sign-in as its person decides, revokes a token when asked,    *)
(* and may not answer at all.                                              *)
(***************************************************************************)
EXTENDS Naturals, FiniteSets

CONSTANTS
    Login,      \* invocations of `drums login`
    Client,     \* invocations of `drums watch`
    Console,    \* the deployments DRUMS_CONSOLE_URL may name
    MaxPolls,   \* bound: polls before MAX_POLL_DURATION has passed
    LastDay     \* bound: days

ASSUME AccountAssumption == MaxPolls \in Nat \ {0} /\ LastDay \in Nat

VARIABLES
    credentials,    \* credentials.toml: a token, or what it is instead
    signIn,         \* [Login -> where it is, and with which console]
    polls,          \* [Login -> polls made]
    code,           \* [Login -> what the console holds of its device code]
    revoked,        \* the tokens the console no longer accepts
    client,         \* [Client -> where it is, and with which console]
    sent,           \* every token that left the machine, and where it went
    license,        \* the key license.key holds, if any
    today,
    granted         \* the days on which a class was promoted

signInVars == <<credentials, signIn, polls, code, revoked, client, sent>>
licenseVars == <<license, today, granted>>
accountVars == <<signInVars, licenseVars>>

\* A token is named by the sign-in it was minted for, whose console it records.
MintedBy(token) == signIn[token].base
LicenseKey == [genuine: BOOLEAN, expires: 0 .. LastDay]

AccountTypeOK ==
    /\ credentials \in Login \cup {"none", "empty", "mixed"}
    /\ signIn \in [Login ->
           [at: {"idle", "waiting", "opening", "linked", "unlinked", "done", "stopped"},
            base: Console]]
    /\ polls \in [Login -> 0 .. MaxPolls]
    /\ code \in [Login -> {"none", "pending", "approved", "declined", "spent"}]
    /\ revoked \subseteq Login
    /\ client \in [Client ->
           [at: {"idle", "asking", "started", "running", "refused"}, base: Console,
            held: SUBSET Login]]
    /\ sent \subseteq [token: Login, to: Console]
    /\ license \subseteq LicenseKey
    /\ today \in 0 .. LastDay /\ granted \subseteq [day: 0 .. LastDay, key: LicenseKey]

AccountInit ==
    /\ credentials = "none"
    /\ signIn \in [Login -> [at: {"idle"}, base: Console]]
    /\ polls = [l \in Login |-> 0]
    /\ code = [l \in Login |-> "none"]
    /\ revoked = {}
    /\ client \in [Client -> [at: {"idle"}, base: Console, held: {{}}]]
    /\ sent = {}
    /\ license = {} /\ today = 0 /\ granted = {}

SignInAt(l, p) == signIn' = [signIn EXCEPT ![l].at = p]
CodeBecomes(l, c) == code' = [code EXCEPT ![l] = c]

-----------------------------------------------------------------------------
\* run: the device code, or a console that cannot be reached or will not start
\* a sign-in.
StartSignIn(l) ==
    /\ signIn[l].at = "idle"
    /\ \/ SignInAt(l, "waiting") /\ CodeBecomes(l, "pending")
       \/ SignInAt(l, "stopped") /\ UNCHANGED code
    /\ UNCHANGED <<credentials, polls, revoked, client, sent>>

\* The person at the console's approval screen (outside).
Decide(l) ==
    /\ code[l] = "pending"
    /\ \E c \in {"approved", "declined"} : CodeBecomes(l, c)
    /\ UNCHANGED <<credentials, signIn, polls, revoked, client, sent>>

\* interpret_poll.  A pending code and a request to slow down both mean to keep
\* waiting; every other refusal stops.
PollAction(answer) ==
    CASE answer = "pending" -> "waiting"
      [] answer = "approved" -> "opening"
      [] OTHER -> "stopped"

\* One turn of run's loop.  The token is minted when the console answers, so an
\* answer that is lost leaves a code that the next poll finds spent.
Poll(l) ==
    /\ signIn[l].at = "waiting"
    /\ IF polls[l] = MaxPolls
       THEN SignInAt(l, "stopped") /\ UNCHANGED <<polls, code>>
       ELSE /\ polls' = [polls EXCEPT ![l] = @ + 1]
            /\ \/ UNCHANGED <<signIn, code>>        \* the console was not reached
               \/ /\ CodeBecomes(l, IF code[l] = "approved" THEN "spent" ELSE code[l])
                  /\ \/ SignInAt(l, PollAction(code[l]))
                     \/ UNCHANGED signIn            \* the answer was lost
    /\ UNCHANGED <<credentials, revoked, client, sent>>

\* save: the file is opened and truncated, then written, then its mode is set by
\* name.
SaveOpens(l) ==
    /\ signIn[l].at = "opening"
    /\ credentials' = "empty" /\ SignInAt(l, "linked")
    /\ UNCHANGED <<polls, code, revoked, client, sent>>

\* Two saves write from the start of one file: the longer body's tail stays
\* behind the shorter.  A file removed meanwhile is not written, and its mode
\* cannot be set unless another save made it anew.
SaveWrites(l) ==
    /\ \/ /\ signIn[l].at = "linked"
          /\ credentials' \in {l} \cup
                 (IF credentials = "empty" THEN {} ELSE {"mixed"})
          /\ SignInAt(l, "done")
       \/ /\ signIn[l].at = "unlinked"
          /\ SignInAt(l, IF credentials = "none" THEN "stopped" ELSE "done")
          /\ UNCHANGED credentials
    /\ UNCHANGED <<polls, code, revoked, client, sent>>

\* ctrl-c, or a disk that is full.
SignInDies(l) ==
    /\ signIn[l].at \in {"waiting", "opening", "linked", "unlinked"}
    /\ SignInAt(l, "stopped")
    /\ UNCHANGED <<credentials, polls, code, revoked, client, sent>>

\* `drums logout`: forget.  "The token is still valid until revoked."
Forget ==
    /\ credentials # "none"
    /\ credentials' = "none"
    /\ signIn' = [l \in Login |->
           IF signIn[l].at = "linked" THEN [signIn[l] EXCEPT !.at = "unlinked"] ELSE signIn[l]]
    /\ UNCHANGED <<polls, code, revoked, client, sent>>

\* Somebody revokes a token at the console (outside).
Revoke(l) ==
    /\ code[l] = "spent" /\ l \notin revoked
    /\ revoked' = revoked \cup {l}
    /\ UNCHANGED <<credentials, signIn, polls, code, client, sent>>

-----------------------------------------------------------------------------
UsableAnywhere(base) == credentials \in Login

\* load, and the check every reader makes of what it loaded: "a token minted
\* against a staging console is not a token for production".
Usable(base) == credentials \in Login /\ MintedBy(credentials) = base

ClientAt(c, p) == client' = [client EXCEPT ![c].at = p]
Sends(c, token) == sent' = sent \cup {[token |-> token, to |-> client[c].base]}
Reads(c, p) == client' = [client EXCEPT ![c].at = p, ![c].held = @ \cup {credentials}]

\* gate, up to the request: bypassed, refused for what the file is, or asking.
Gate(c) ==
    /\ client[c].at = "idle"
    /\ \/ ClientAt(c, "started") /\ UNCHANGED sent
       \/ ~Usable(client[c].base) /\ ClientAt(c, "refused") /\ UNCHANGED sent
       \/ /\ Usable(client[c].base) /\ Sends(c, credentials)
          /\ Reads(c, "asking")
    /\ UNCHANGED <<credentials, signIn, polls, code, revoked>>

\* interpret_check: only a console that looked at the token and refused it stops
\* a start; one that could not be reached, or is ill, does not.
ConsoleSays(tokens) ==
    {"inconclusive", IF tokens \subseteq revoked THEN "rejected" ELSE "accepted"}

Confirmed(c) ==
    /\ client[c].at = "asking"
    /\ \E says \in ConsoleSays(client[c].held) :
           ClientAt(c, IF says = "rejected" THEN "refused" ELSE "started")
    /\ UNCHANGED <<credentials, signIn, polls, code, revoked, sent>>

\* What will run beside the loop reads the file again while the watch starts, with
\* an account or without: the dispatch of repairs, the behaviour bridge, the
\* record sync and the tracker's poll, each on its own.
ReadAgain(c) ==
    /\ client[c].at = "started" /\ Usable(client[c].base)
    /\ Reads(c, "started")
    /\ UNCHANGED <<credentials, signIn, polls, code, revoked, sent>>

Started(c) ==
    /\ client[c].at = "started" /\ ClientAt(c, "running")
    /\ UNCHANGED <<credentials, signIn, polls, code, revoked, sent>>

\* It keeps what it read, whatever becomes of the file and of the token.
Uses(c) ==
    /\ client[c].at = "running"
    /\ \E token \in client[c].held : Sends(c, token)
    /\ UNCHANGED <<credentials, signIn, polls, code, revoked, client>>

-----------------------------------------------------------------------------
\* verify: what a key is worth on a day.
LicenseStatus(key, day) ==
    CASE ~key.genuine -> "invalid"
      [] key.genuine /\ day > key.expires -> "expired"
      [] OTHER -> "active"

\* activate: stores a key that is in force, and no other.
Activate(key) ==
    /\ LicenseStatus(key, today) = "active"
    /\ license' = {key}
    /\ UNCHANGED <<today, granted>>

DayEnds ==
    /\ today < LastDay /\ today' = today + 1
    /\ UNCHANGED <<license, granted>>

\* `drums authority promote`, of a class that has earned it: current_status looks
\* at the stored key again, on the day.
Grant ==
    \E key \in license :
        /\ LicenseStatus(key, today) = "active"
        /\ granted' = granted \cup {[day |-> today, key |-> key]}
        /\ UNCHANGED <<license, today>>

SignInStep(l) == Poll(l) \/ SaveOpens(l) \/ SaveWrites(l)

SignInNext ==
    \/ \E l \in Login :
          StartSignIn(l) \/ Decide(l) \/ SignInStep(l) \/ SignInDies(l) \/ Revoke(l)
    \/ Forget
    \/ \E c \in Client : Gate(c) \/ Confirmed(c) \/ ReadAgain(c) \/ Started(c) \/ Uses(c)

LicenseNext == (\E key \in LicenseKey : Activate(key)) \/ DayEnds \/ Grant

AccountNext ==
    \/ SignInNext /\ UNCHANGED licenseVars
    \/ LicenseNext /\ UNCHANGED signInVars

\* The loop of a sign-in polls on and writes what it got.
AccountSpec ==
    /\ AccountInit /\ [][AccountNext]_accountVars
    /\ \A l \in Login : WF_signInVars(SignInStep(l))

-----------------------------------------------------------------------------
\* "Recorded so a token minted against a staging console is not silently used
\* against production": whatever was signed in to or out of while a watch was
\* running, no token is ever sent to another console than the one that minted it.
\* And act-alone is granted under a genuine key in force on that day, however long
\* ago the key was stored.
CredentialsAreGood ==
    /\ \A s \in sent : s.to = MintedBy(s.token)
    /\ \A g \in granted : g.key.genuine /\ g.day <= g.key.expires

\* A sign-in that began to wait comes to an end, approved or not.
SignInEnds ==
    \A l \in Login :
        signIn[l].at = "waiting" ~> signIn[l].at \in {"done", "stopped"}
=============================================================================
