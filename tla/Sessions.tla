------------------------------ MODULE Sessions ------------------------------
(***************************************************************************)
(* One browser and the session rows of its user (auth_deps.py,             *)
(* api/auth.py).  A request carries the cookies the browser held when it   *)
(* was sent; the first request of a session, and the first after a week,   *)
(* gives the row a new token before its handler runs, and the browser      *)
(* learns the token when the reply arrives, if the reply carries cookies.  *)
(* The user's second factor is fixed in a behaviour; MCRequests lets it be *)
(* any.  Cookies hold tokens: the factor cookie holds the token it is      *)
(* signed over.                                                            *)
(***************************************************************************)
EXTENDS Naturals, FiniteSets

CONSTANTS
  Requests,    \* requests the browser may have under way
  MaxTokens,   \* bound: tokens ever drawn
  MaxSignIns,  \* bound: rows ever created
  None         \* no token

ASSUME SessionsAssumption == MaxTokens \in Nat /\ MaxSignIns \in Nat /\ None \notin Nat

Factors == {"none", "totp", "passkey"}
Cookies == {"session", "totp", "passkey"}
Rows == 1 .. MaxSignIns
Tokens == 1 .. MaxTokens

VARIABLES
  factor,    \* User.passkeys_enabled (first) or User.totp_enabled
  deletion,  \* User.scheduled_deletion_at: "none", "ahead" or "past"
  row,       \* the session rows: token, when last rotated, whether still valid
  drawn,     \* tokens drawn so far
  states,    \* OAuth states waiting for their callback
  jar,       \* the browser's cookies
  req,       \* requests under way
  passed     \* rows whose browser has passed the second factor (history)

ssVars == <<factor, deletion, row, drawn, states, jar, req, passed>>

NoRow == [token |-> None, rotated |-> "never", life |-> "absent"]
NoRequest == [pc |-> "idle", kind |-> None, sent |-> <<>>, row |-> 0, reply |-> <<>>]

SsInit ==
  /\ factor \in Factors
  /\ deletion = "none"
  /\ row = [i \in Rows |-> NoRow]
  /\ drawn = 0
  /\ states = 0
  /\ jar = [c \in Cookies |-> None]
  /\ req = [r \in Requests |-> NoRequest]
  /\ passed = {}

\* A reply's Set-Cookie lines over the cookies there were.
Over(new, old) ==
  [c \in DOMAIN new \cup DOMAIN old |-> IF c \in DOMAIN new THEN new[c] ELSE old[c]]

\* A row deleted because it expired keeps its token here, as history only.
Stored(i) == row[i].life \in {"valid", "expired"}
Named(token) == {i \in Rows : Stored(i) /\ row[i].token = token}
SignedOver(cookies, token) == factor \in Cookies => cookies[factor] = token
Step(r, pc) == req' = [req EXCEPT ![r].pc = pc]
Refuse(r) == req' = [req EXCEPT ![r].pc = "reply", ![r].reply = <<>>]

(***************************************************************************)
(* Requests that need a signed-in user, and those of the sign-in pages.    *)
(* "raises" stands for every handler whose reply is not built by FastAPI   *)
(* from a returned value: it raises, or returns a Response of its own.     *)
(***************************************************************************)
UserKinds == {"returns", "raises", "logout", "schedule", "cancel"}
SignInKinds == {"callback", "keylogin", "code", "assert"}

\* Signing in is a navigation, and the page that asks for the factor (app.tsx)
\* has no other request under way.
Alone(kind) ==
  \A r \in Requests : req[r].pc # "idle" => {kind, req[r].kind} \cap SignInKinds = {}

\* AuthMiddleware turns away a request without the session cookie; the page asks
\* for the factor when it was refused for want of it.
Send(r, kind) ==
  /\ req[r].pc = "idle"
  /\ kind \in UserKinds \cup {"code", "assert"} => jar["session"] # None
  /\ kind = "code" => factor = "totp"
  /\ kind \in {"assert", "keylogin"} => factor = "passkey"
  /\ kind \in {"code", "assert"} => ~SignedOver(jar, jar["session"])
  /\ Alone(kind)
  /\ req' = [req EXCEPT ![r] = [NoRequest EXCEPT !.pc = "lookup", !.kind = kind, !.sent = jar]]
  /\ UNCHANGED <<factor, deletion, row, drawn, states, jar, passed>>

\* start_google_auth stores a state; the browser comes back with it once.
StartSignIn ==
  /\ states = 0
  /\ states' = 1
  /\ UNCHANGED <<factor, deletion, row, drawn, jar, req, passed>>

\* The row of the cookie: an expired one is deleted; a user whose deletion time
\* has passed, and one whose factor cookie does not fit, are refused.
NeedsRotation(i) == row[i].rotated # "recent"
Authenticate(r) ==
  /\ req[r].pc = "lookup" /\ req[r].kind \in UserKinds
  /\ LET sent == req[r].sent IN
     \/ /\ Named(sent["session"]) = {}
        /\ Refuse(r) /\ UNCHANGED row
     \/ \E i \in Named(sent["session"]) :
          \/ /\ row[i].life = "expired"
             /\ row' = [row EXCEPT ![i].life = "ended"]
             /\ Refuse(r)
          \/ /\ row[i].life = "valid"
             /\ deletion = "past" \/ ~SignedOver(sent, sent["session"])
             /\ Refuse(r) /\ UNCHANGED row
          \/ /\ row[i].life = "valid"
             /\ deletion # "past" /\ SignedOver(sent, sent["session"])
             /\ req' = [req EXCEPT ![r].row = i,
                                   ![r].pc = IF NeedsRotation(i) THEN "rotate" ELSE "handle"]
             /\ UNCHANGED row
  /\ UNCHANGED <<factor, deletion, drawn, states, jar, passed>>

\* The row read before gets a new token, whatever its token is by now; the
\* cookies of the reply are signed over it.  A row deleted meanwhile makes the
\* update fail.
SessionOnly(r, token) == [c \in {"session"} |-> token]
Resigned(r, token) ==
  [c \in {"session"} \cup {f \in {factor} \ {"none"} : req[r].sent[f] # None} |-> token]
Rotate(r) ==
  /\ req[r].pc = "rotate"
  /\ LET i == req[r].row IN
     \/ /\ ~Stored(i)
        /\ Refuse(r) /\ UNCHANGED <<row, drawn>>
     \/ /\ Stored(i) /\ drawn < MaxTokens
        /\ drawn' = drawn + 1
        /\ row' = [row EXCEPT ![i].token = drawn + 1, ![i].rotated = "recent"]
        /\ req' = [req EXCEPT ![r].pc = "handle", ![r].reply = Resigned(r, drawn + 1)]
  /\ UNCHANGED <<factor, deletion, states, jar, passed>>

Clear(cs) == [c \in cs |-> None]

\* logout deletes the row of the token the request came with, which a rotation
\* on the way in has replaced; scheduling a deletion only drops the cookie.
Handle(r) ==
  /\ req[r].pc = "handle"
  /\ \/ /\ req[r].kind = "returns"
        /\ Step(r, "reply") /\ UNCHANGED <<row, deletion>>
     \/ /\ req[r].kind = "raises"
        /\ Refuse(r) /\ UNCHANGED <<row, deletion>>
     \/ /\ req[r].kind = "logout"
        /\ row' = [i \in Rows |-> IF i \in Named(req[r].sent["session"]) THEN NoRow ELSE row[i]]
        /\ req' = [req EXCEPT ![r].pc = "reply", ![r].reply = Over(Clear(Cookies), @)]
        /\ UNCHANGED deletion
     \/ /\ req[r].kind = "schedule"
        /\ deletion' = "ahead"
        /\ req' = [req EXCEPT ![r].pc = "reply", ![r].reply = Over(Clear({"session"}), @)]
        /\ UNCHANGED row
     \/ /\ req[r].kind = "cancel" /\ deletion # "none"
        /\ deletion' = "none"
        /\ Step(r, "reply") /\ UNCHANGED row
     \/ /\ req[r].kind = "cancel" /\ deletion = "none"
        /\ Refuse(r) /\ UNCHANGED <<row, deletion>>
  /\ UNCHANGED <<factor, drawn, states, jar, passed>>

\* verify_2fa and passkey_assert_complete: the right code or key signs the
\* token the request came with.  A wrong one changes nothing but an expired row.
CheckFactor(r) ==
  /\ req[r].pc = "lookup" /\ req[r].kind \in {"code", "assert"}
  /\ LET token == req[r].sent["session"] IN
     \/ \E i \in Named(token) :
          /\ row[i].life = "valid"
          /\ req' = [req EXCEPT ![r].pc = "reply", ![r].reply = [c \in {factor} |-> token]]
          /\ UNCHANGED row
     \/ /\ Refuse(r)
        /\ row' = [i \in Rows |-> IF /\ req[r].kind = "code" /\ i \in Named(token)
                                     /\ row[i].life = "expired"
                                  THEN [row[i] EXCEPT !.life = "ended"] ELSE row[i]]
  /\ UNCHANGED <<factor, deletion, drawn, states, jar, passed>>

\* _create_session: a new row whose token the reply sets.
NewRow(r, cookies) ==
  /\ drawn < MaxTokens
  /\ drawn' = drawn + 1
  /\ \E i \in Rows :
       /\ row[i].life = "absent" /\ i \notin passed
       /\ row' = [row EXCEPT ![i] = [token |-> drawn + 1, rotated |-> "never", life |-> "valid"]]
       /\ req' = [req EXCEPT ![r].pc = "reply", ![r].reply = [c \in cookies |-> drawn + 1]]

\* google_callback uses up the state, then signs in; without a state it is a 400.
Callback(r) ==
  /\ req[r].pc = "lookup" /\ req[r].kind = "callback"
  /\ \/ /\ states = 1 /\ states' = 0
        /\ NewRow(r, {"session"})
     \/ /\ states = 0
        /\ Refuse(r) /\ UNCHANGED <<row, drawn, states>>
  /\ UNCHANGED <<factor, deletion, jar, passed>>

\* passkey_login_complete: session and factor cookie together, unless the
\* deletion time has passed or Gmail is not connected.
KeyLogin(r) ==
  /\ req[r].pc = "lookup" /\ req[r].kind = "keylogin"
  /\ \/ /\ deletion # "past"
        /\ NewRow(r, {"session", "passkey"})
     \/ /\ Refuse(r) /\ UNCHANGED <<row, drawn>>
  /\ UNCHANGED <<factor, deletion, states, jar, passed>>

\* Replies arrive in any order; the session of a factor cookie has passed.
Receive(r) ==
  /\ req[r].pc = "reply"
  /\ LET reply == req[r].reply IN
     /\ jar' = Over(reply, jar)
     /\ passed' = passed \cup UNION {Named(reply[f]) : f \in DOMAIN reply \cap {factor}}
  /\ req' = [req EXCEPT ![r] = NoRequest]
  /\ UNCHANGED <<factor, deletion, row, drawn, states>>

(* Time: a week, thirty days, the factor cookie's day, the deletion time.  *)
WeekPasses(i) ==
  /\ Stored(i) /\ row[i].rotated = "recent"
  /\ row' = [row EXCEPT ![i].rotated = "old"]
  /\ UNCHANGED <<factor, deletion, drawn, states, jar, req, passed>>
Expire(i) ==
  /\ row[i].life = "valid"
  /\ row' = [row EXCEPT ![i].life = "expired"]
  /\ UNCHANGED <<factor, deletion, drawn, states, jar, req, passed>>
DayPasses ==
  /\ factor # "none" /\ jar[factor] # None
  /\ \A r \in Requests : req[r].pc = "idle"
  /\ jar' = [jar EXCEPT ![factor] = None]
  /\ passed' = {}
  /\ UNCHANGED <<factor, deletion, row, drawn, states, req>>
DeletionDue ==
  /\ deletion = "ahead"
  /\ deletion' = "past"
  /\ UNCHANGED <<factor, row, drawn, states, jar, req, passed>>

SsNext ==
  \/ \E r \in Requests :
       \/ \E kind \in UserKinds \cup SignInKinds : Send(r, kind)
       \/ Authenticate(r) \/ Rotate(r) \/ Handle(r) \/ CheckFactor(r)
       \/ Callback(r) \/ KeyLogin(r) \/ Receive(r)
  \/ \E i \in Rows : WeekPasses(i) \/ Expire(i)
  \/ StartSignIn \/ DayPasses \/ DeletionDue

SsSpec == SsInit /\ [][SsNext]_ssVars

SsTypeOK ==
  /\ factor \in Factors /\ deletion \in {"none", "ahead", "past"}
  /\ \A i \in Rows : row[i].token \in Tokens \cup {None}
  /\ drawn \in 0 .. MaxTokens /\ states \in {0, 1}
  /\ jar \in [Cookies -> Tokens \cup {None}]
  /\ passed \subseteq Rows

(***************************************************************************)
(* A browser that has passed the second factor in a session is not asked   *)
(* for it again within the cookie's day: whenever its session cookie is    *)
(* good, its factor cookie is signed over the same token.  The rotation    *)
(* re-signs it (auth_deps.py:170-199) while other requests are under way.  *)
(***************************************************************************)
FactorFollowsSession ==
  \A i \in passed : /\ row[i].life = "valid" /\ row[i].token = jar["session"]
                    => SignedOver(jar, jar["session"])

(***************************************************************************)
(* A browser whose requests have all been answered is not left with a      *)
(* token that no row has: it signed out, or its token is the row's.        *)
(* auth_deps.py:127-129 puts the check of the second factor before the     *)
(* rotation for this; parallel requests and failing handlers break it.     *)
(***************************************************************************)
StaysSignedIn ==
  /\ \A r \in Requests : req[r].pc = "idle"
  /\ jar["session"] # None
  => \E i \in Rows : row[i].life # "absent" /\ row[i].token = jar["session"]
=============================================================================
