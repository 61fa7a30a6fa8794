--------------------------- MODULE Requests_proofs ---------------------------
(***************************************************************************)
(* Proofs about the components around a request: second factors, accounts  *)
(* and invitations, the limiter and the sessions, for any number of        *)
(* handlers, people, invitations, ticks, requests and tokens.              *)
(***************************************************************************)
EXTENDS MCRequests, FiniteSetTheorems, TLAPS

-----------------------------------------------------------------------------
(* The second factors.  What a handler is going to write was computed from  *)
(* the row it loaded: a secret it writes has been confirmed.                *)
Columns == {"enabled", "secret", "pending", "passkeys"}
Sound(set) ==
  /\ DOMAIN set \subseteq Columns
  /\ "secret" \in DOMAIN set => set["secret"] \in confirmed \cup {NoSecret}
  /\ "pending" \in DOMAIN set => set["pending"] \in Secrets \cup {NoSecret}

FcInv ==
  /\ DOMAIN account = Columns
  /\ account["secret"] \in confirmed \cup {NoSecret}
  /\ account["pending"] \in Secrets \cup {NoSecret}
  /\ DOMAIN handler = Handlers /\ \A h \in Handlers : Sound(handler[h].set)
  /\ \A h \in Handlers : handler[h].kind = "register" => handler[h].key \in Keys
  /\ keys \subseteq Keys /\ confirmed \subseteq Secrets

LEMMA FcInitInv == FcInit => FcInv
<1> SUFFICES ASSUME FcInit PROVE FcInv
  OBVIOUS
<1>1. DOMAIN <<>> = {}
  OBVIOUS
<1>2. \A h \in Handlers : handler[h].set = <<>> /\ handler[h].kind = "none"
  BY DEF FcInit, NoHandler
<1> QED BY <1>1, <1>2 DEF FcInit, FcInv, Sound, Columns

LEMMA LoadInv ==
  ASSUME FcInv, NEW h \in Handlers, NEW kind, NEW set, NEW key, Load(h, kind, set, key),
         DOMAIN set \subseteq Columns,
         "secret" \in DOMAIN set => set["secret"] \in confirmed' \cup {NoSecret},
         "pending" \in DOMAIN set => set["pending"] \in Secrets \cup {NoSecret},
         kind = "register" => key \in Keys,
         confirmed \subseteq confirmed', confirmed' \subseteq Secrets
  PROVE  FcInv'
<1>1. /\ handler' = [handler EXCEPT ![h] = [kind |-> kind, set |-> Changes(set), key |-> key]]
      /\ UNCHANGED <<account, keys>>
  BY DEF Load
<1>2. /\ DOMAIN Changes(set) \subseteq DOMAIN set
      /\ \A c \in DOMAIN Changes(set) : Changes(set)[c] = set[c]
  BY DEF Changes
<1>3. Sound(Changes(set))'
  <2>1. Changes(set)' = Changes(set)
    BY <1>1 DEF Changes
  <2> QED BY <1>2, <2>1 DEF Sound
<1> QED BY <1>1, <1>2, <1>3 DEF FcInv, Sound
LEMMA FlushInv ==
  ASSUME FcInv, NEW h \in Handlers, Flush(h)
  PROVE  FcInv'
<1>1. /\ account' = [c \in DOMAIN account |-> IF c \in DOMAIN handler[h].set
                                                THEN handler[h].set[c] ELSE account[c]]
      /\ handler' = [handler EXCEPT ![h] = NoHandler]
      /\ confirmed' = confirmed
  BY DEF Flush, Written
<1>2. /\ DOMAIN account' = Columns
      /\ \A c \in Columns : account'[c] = IF c \in DOMAIN handler[h].set THEN handler[h].set[c]
                                          ELSE account[c]
  BY <1>1 DEF FcInv
<1>3. Sound(handler[h].set)
  BY DEF FcInv
<1>4. /\ account'["secret"] \in confirmed \cup {NoSecret}
      /\ account'["pending"] \in Secrets \cup {NoSecret}
  BY <1>2, <1>3 DEF FcInv, Sound, Columns
<1>5. keys' \subseteq Keys
  BY DEF Flush, FcInv
<1>6. \A g \in Handlers : Sound(handler[g].set)'
  <2>1. DOMAIN NoHandler.set = {}
    BY DEF NoHandler
  <2>2. \A g \in Handlers : handler'[g] = handler[g] \/ handler'[g] = NoHandler
    BY <1>1 DEF FcInv
  <2> QED BY <1>1, <2>1, <2>2 DEF FcInv, Sound
<1>7. DOMAIN handler' = Handlers
      /\ \A g \in Handlers : handler'[g].kind = "register" => handler'[g].key \in Keys
  BY <1>1 DEF FcInv, NoHandler
<1> QED BY <1>1, <1>2, <1>4, <1>5, <1>6, <1>7 DEF FcInv

LEMMA FcStepInv == FcInv /\ [FcNext]_fcVars => FcInv'
<1> SUFFICES ASSUME FcInv, [FcNext]_fcVars PROVE FcInv'
  OBVIOUS
<1>1. CASE UNCHANGED fcVars
  BY <1>1 DEF fcVars, FcInv, Sound
<1>2. ASSUME NEW h \in Handlers, Setup(h) PROVE FcInv'
  <2>1. PICK s \in Secrets : Load(h, "setup", [pending |-> s], "none")
    BY <1>2 DEF Setup
  <2>2. confirmed' = confirmed /\ confirmed \subseteq Secrets
    BY <1>2 DEF Setup, FcInv
  <2> QED BY <2>1, <2>2, LoadInv DEF Columns
<1>3. ASSUME NEW h \in Handlers, Verify(h) PROVE FcInv'
  <2>1. /\ account["pending"] \in Secrets /\ confirmed' = confirmed \cup {account["pending"]}
        /\ Load(h, "verify", Verified(account["pending"]), "none")
    BY <1>3 DEF Verify, FcInv
  <2>2. confirmed' \subseteq Secrets /\ confirmed \subseteq confirmed'
    BY <2>1 DEF FcInv
  <2>3. LET v == Verified(account["pending"])
        IN  /\ DOMAIN v \subseteq Columns /\ v["secret"] = account["pending"]
            /\ v["pending"] = NoSecret
    BY DEF Verified, Columns
  <2> QED BY <2>1, <2>2, <2>3, LoadInv
<1>4. ASSUME NEW h \in Handlers, Disable(h) PROVE FcInv'
  <2>1. /\ Load(h, "disable", [enabled |-> FALSE, secret |-> NoSecret, pending |-> NoSecret], "none")
        /\ confirmed' = confirmed /\ confirmed \subseteq Secrets
    BY <1>4 DEF Disable, FcInv
  <2> QED BY <2>1, LoadInv DEF Columns
<1>5. ASSUME NEW h \in Handlers, Register(h) PROVE FcInv'
  <2>1. PICK k \in Keys : Load(h, "register", [passkeys |-> TRUE], k)
    BY <1>5 DEF Register
  <2>2. confirmed' = confirmed /\ confirmed \subseteq Secrets
    BY <1>5 DEF Register, FcInv
  <2> QED BY <2>1, <2>2, LoadInv DEF Columns
<1>6. ASSUME NEW h \in Handlers, RemoveKey(h) PROVE FcInv'
  <2>1. PICK k \in keys : Load(h, "remove", IF keys = {k} THEN [passkeys |-> FALSE] ELSE <<>>, k)
    BY <1>6 DEF RemoveKey
  <2>2. confirmed' = confirmed /\ confirmed \subseteq Secrets
    BY <1>6 DEF RemoveKey, FcInv
  <2>3. CASE keys = {k}
    <3>1. Load(h, "remove", [passkeys |-> FALSE], k)
      BY <2>1, <2>3
    <3> QED BY <2>2, <3>1, LoadInv DEF Columns
  <2>4. CASE keys # {k}
    <3>1. Load(h, "remove", <<>>, k) /\ DOMAIN <<>> = {}
      BY <2>1, <2>4
    <3> QED BY <2>2, <3>1, LoadInv
  <2> QED BY <2>3, <2>4
<1>7. ASSUME NEW h \in Handlers, DisablePasskeys(h) PROVE FcInv'
  <2>1. /\ Load(h, "drop", [passkeys |-> FALSE], "none")
        /\ confirmed' = confirmed /\ confirmed \subseteq Secrets
    BY <1>7 DEF DisablePasskeys, FcInv
  <2> QED BY <2>1, LoadInv DEF Columns
<1> QED BY <1>1, <1>2, <1>3, <1>4, <1>5, <1>6, <1>7, FlushInv DEF FcNext

(* The second factors always have their type.                               *)
THEOREM FcTypeCorrect == FcSpec => []FcTypeOK
<1>1. FcInv => FcTypeOK
  BY DEF FcInv, FcTypeOK, Columns
<1> QED BY <1>1, FcInitInv, FcStepInv, PTL DEF FcSpec

(* The secret that sign-ins are checked against is one a code was verified  *)
(* for (verify_2fa, settings.py), for any number of handlers that load the  *)
(* row, overlap and write back their columns.                               *)
THEOREM SecretsConfirmed == FcSpec => []SecretConfirmed
<1>1. FcInv => SecretConfirmed
  BY DEF FcInv, SecretConfirmed
<1> QED BY <1>1, FcInitInv, FcStepInv, PTL DEF FcSpec

-----------------------------------------------------------------------------
(* Accounts: types of the rows, and of what a handler has read.             *)
Statuses == {"absent", "pending", "accepted", "revoked", "gone"}

AcTypes ==
  /\ user \in [People -> [role : {"none", "owner", "member"}, profile : BOOLEAN, gmail : 0 .. MaxGmail]]
  /\ invite \in [Invites -> [email : People \cup {Nobody}, by : People \cup {Nobody},
                             status : Statuses]]
  /\ joined \subseteq People \X (Invites \cup {NoInvite})
  /\ DOMAIN call = Calls

CallType(x) ==
  /\ x.kind \in {"join", "account", "onboard", "invite"} => x.email \in People
  /\ x.kind \in {"join", "onboard"} => x.as \in {"owner", "member"}
  /\ x.kind = "invite" => x.as \in People
  /\ x.kind = "join" => x.invite \in Invites \cup {NoInvite}

(* What a sign-up has read of its invitation stays so, unless the           *)
(* invitation goes with the one who made it.                                *)
Invited(x) == (x.kind = "join" /\ x.invite \in Invites) =>
  /\ invite[x.invite].status # "absent"
  /\ invite[x.invite].status = "gone" \/ invite[x.invite].email = x.email

AcInv ==
  /\ AcTypes /\ \A c \in Calls : CallType(call[c]) /\ Invited(call[c])
  /\ InvitationsSpent

LEMMA AcInitInv == AcInit => AcInv
<1> SUFFICES ASSUME AcInit PROVE AcInv
  OBVIOUS
<1>1. AcTypes
  BY AccountsAssumption DEF AcInit, AcTypes, NoUser, NoInvitation, Statuses
<1>2. \A c \in Calls : CallType(call[c]) /\ Invited(call[c])
  BY DEF AcInit, NoCall, CallType, Invited
<1>3. InvitationsSpent
  BY DEF AcInit, InvitationsSpent, NoInvitation
<1> QED BY <1>1, <1>2, <1>3 DEF AcInv

(* Reads: a handler goes on to wait.                                        *)
LEMMA AwaitInv ==
  ASSUME AcInv, NEW c \in Calls, NEW kind, NEW p, NEW as, NEW i, Await(c, kind, p, as, i),
         UNCHANGED <<user, invite, joined>>,
         CallType([kind |-> kind, email |-> p, as |-> as, invite |-> i]),
         Invited([kind |-> kind, email |-> p, as |-> as, invite |-> i])
  PROVE  AcInv'
<1> DEFINE x == [kind |-> kind, email |-> p, as |-> as, invite |-> i]
<1>1. /\ call' = [call EXCEPT ![c] = x] /\ DOMAIN call = Calls
      /\ CallType(x) /\ Invited(x)
  BY DEF Await, AcInv, AcTypes
<1> HIDE DEF x
<1>2. \A d \in Calls : call'[d] = call[d] \/ call'[d] = x
  BY <1>1
<1>3. \A d \in Calls : CallType(call'[d]) /\ Invited(call'[d])
  BY <1>1, <1>2 DEF AcInv
<1>4. \A d \in Calls : Invited(call[d])'
  BY <1>3 DEF Invited
<1>5. AcTypes' /\ InvitationsSpent'
  BY <1>1 DEF AcInv, AcTypes, InvitationsSpent
<1> QED BY <1>3, <1>4, <1>5 DEF AcInv, CallType

LEMMA ReadsInv ==
  ASSUME AcInv, NEW c \in Calls,
         \/ \E p \in People : SignIn(c, p) \/ Onboard(c, p) \/ \E o \in People : Invite(c, o, p)
         \/ \E i \in Invites : Revoke(c, i)
  PROVE  AcInv'
<1>1. ASSUME NEW p \in People, SignIn(c, p) PROVE AcInv'
  <2>1. CASE Await(c, "account", p, "none", NoInvite)
    BY <1>1, <2>1, AwaitInv DEF SignIn, CallType, Invited
  <2>2. CASE Await(c, "join", p, "owner", NoInvite)
    BY <1>1, <2>2, AwaitInv, AccountsAssumption DEF SignIn, CallType, Invited
  <2>3. ASSUME NEW i \in Pending(p), Await(c, "join", p, "member", i) PROVE AcInv'
    <3>1. i \in Invites /\ invite[i].email = p /\ invite[i].status = "pending"
      BY DEF Pending
    <3> QED BY <1>1, <2>3, <3>1, AwaitInv DEF SignIn, CallType, Invited
  <2> QED BY <1>1, <2>1, <2>2, <2>3 DEF SignIn
<1>2. ASSUME NEW p \in People, Onboard(c, p) PROVE AcInv'
  <2>1. PICK role \in {"member", "owner"} : Await(c, "onboard", p, role, NoInvite)
    BY <1>2 DEF Onboard
  <2> QED BY <1>2, <2>1, AwaitInv DEF Onboard, CallType, Invited
<1>3. ASSUME NEW p \in People, NEW o \in People, Invite(c, o, p) PROVE AcInv'
  BY <1>3, AwaitInv DEF Invite, CallType, Invited
<1>4. ASSUME NEW i \in Invites, Revoke(c, i) PROVE AcInv'
  BY <1>4, AwaitInv DEF Revoke, CallType, Invited
<1> QED BY <1>1, <1>2, <1>3, <1>4

(* Commits: the handler is done, or goes on as "account"; the invitations    *)
(* other handlers have read do not become absent, nor another person's.     *)
LEMMA CommitInv ==
  ASSUME AcInv, AcTypes', InvitationsSpent',
         \A d \in Calls : call'[d].kind = "join" => call'[d] = call[d],
         \A d \in Calls : call'[d] = call[d] \/ CallType(call'[d]),
         \A i \in Invites : \/ invite'[i].status = "gone"
                            \/ invite[i].status = "absent"
                            \/ /\ invite'[i].email = invite[i].email
                               /\ invite'[i].status # "absent" /\ invite[i].status # "gone"
  PROVE  AcInv'
<1>1. \A d \in Calls : CallType(call'[d])
  BY DEF AcInv
<1>2. \A d \in Calls : Invited(call[d])'
  BY DEF AcInv, Invited
<1> QED BY <1>1, <1>2 DEF AcInv, CallType

LEMMA DoneCalls ==
  ASSUME AcInv, NEW c \in Calls, Done(c)
  PROVE  /\ DOMAIN call' = Calls
         /\ \A d \in Calls : call'[d].kind = "join" => call'[d] = call[d]
         /\ \A d \in Calls : call'[d] = call[d] \/ CallType(call'[d])
BY DEF AcInv, AcTypes, Done, NoCall, CallType

LEMMA JoinInv ==
  ASSUME AcInv, NEW c \in Calls, Join(c)
  PROVE  AcInv'
<1> DEFINE p == call[c].email
           i == call[c].invite
<1>1. /\ AcTypes /\ InvitationsSpent /\ CallType(call[c]) /\ Invited(call[c])
      /\ call[c].kind = "join" /\ p \in People /\ i \in Invites \cup {NoInvite}
  BY DEF AcInv, Join, CallType
<1>2. CASE Done(c) /\ UNCHANGED <<user, invite, joined>>
  <2>1. AcTypes' /\ InvitationsSpent'
    BY <1>1, <1>2, DoneCalls DEF AcTypes, InvitationsSpent
  <2> QED BY <1>2, <2>1, DoneCalls, CommitInv
<1>3. CASE /\ ~(Exists(p) \/ (i \in Invites /\ invite[i].status = "gone"))
           /\ user' = [user EXCEPT ![p] = NewUser(call[c].as)]
           /\ invite' = Marked(i)
           /\ joined' = joined \cup {<<p, i>>}
           /\ Await(c, "account", p, "none", NoInvite)
  <2>1. /\ DOMAIN call' = Calls
        /\ \A d \in Calls : call'[d] = call[d] \/ (call'[d].kind = "account" /\ call'[d].email = p)
    BY <1>1, <1>3 DEF Await, AcTypes
  <2>2. \A j \in Invites : /\ j # i => invite'[j] = invite[j]
                           /\ j = i => /\ invite'[j].status = "accepted" /\ invite'[j].email = p
                                       /\ invite[j].email = p /\ invite[j].status \notin {"absent", "gone"}
                                       /\ invite'[j].by = invite[j].by
    BY <1>1, <1>3 DEF Marked, AcTypes, Invited
  <2>3. invite' \in [Invites -> [email : People \cup {Nobody}, by : People \cup {Nobody},
                                 status : Statuses]]
    BY <1>1, <1>3 DEF Marked, AcTypes, Statuses
  <2>4. user' \in [People -> [role : {"none", "owner", "member"}, profile : BOOLEAN, gmail : 0 .. MaxGmail]]
    BY <1>1, <1>3, AccountsAssumption DEF AcTypes, NewUser, CallType
  <2>5. AcTypes'
    BY <1>1, <1>3, <2>1, <2>3, <2>4 DEF AcTypes
  <2>6. ASSUME NEW j \in Invites, invite'[j].status = "accepted"
        PROVE  <<invite'[j].email, j>> \in joined'
    BY <1>1, <1>3, <2>2, <2>6 DEF InvitationsSpent
  <2>7. ASSUME NEW j \in joined', j[2] \in Invites
        PROVE  /\ invite'[j[2]].status \notin {"absent", "pending"}
               /\ invite'[j[2]].email \in {j[1], Nobody}
    <3>1. CASE j \in joined
      <4>1. /\ invite[j[2]].status \notin {"absent", "pending"}
            /\ invite[j[2]].email \in {j[1], Nobody}
        BY <1>1, <2>7, <3>1 DEF InvitationsSpent
      <4> QED BY <2>2, <2>7, <4>1
    <3>2. CASE j = <<p, i>>
      BY <2>2, <2>7, <3>2
    <3> QED BY <1>3, <3>1, <3>2
  <2>8. InvitationsSpent'
    BY <2>6, <2>7 DEF InvitationsSpent
  <2>9. \A d \in Calls : call'[d] = call[d] \/ CallType(call'[d])
    BY <1>1, <2>1 DEF CallType
  <2>10. \A d \in Calls : call'[d].kind = "join" => call'[d] = call[d]
    BY <2>1
  <2>11. \A j \in Invites : \/ invite[j].status = "absent" \/ invite'[j].status = "gone"
                            \/ /\ invite'[j].email = invite[j].email
                               /\ invite'[j].status # "absent" /\ invite[j].status # "gone"
    BY <2>2
  <2> QED BY <2>5, <2>8, <2>9, <2>10, <2>11, CommitInv
<1> QED BY <1>2, <1>3 DEF Join

LEMMA CommitsInv ==
  ASSUME AcInv, NEW c \in Calls,
         Account(c) \/ OnboardCommit(c) \/ InviteCommit(c) \/ RevokeCommit(c)
  PROVE  AcInv'
<1>1. /\ AcTypes /\ InvitationsSpent /\ CallType(call[c]) /\ Done(c)
      /\ DOMAIN call' = Calls
      /\ \A d \in Calls : call'[d].kind = "join" => call'[d] = call[d]
      /\ \A d \in Calls : call'[d] = call[d] \/ CallType(call'[d])
  <2>1. Done(c)
    BY DEF Account, OnboardCommit, InviteCommit, RevokeCommit
  <2> QED BY <2>1, DoneCalls DEF AcInv
<1>2. CASE Account(c)
  <2>1. call[c].email \in People
    BY <1>1, <1>2 DEF Account, CallType
  <2>2. AcTypes' /\ InvitationsSpent'
    BY <1>1, <1>2, <2>1, AccountsAssumption DEF Account, AcTypes, InvitationsSpent
  <2>3. invite' = invite
    BY <1>2 DEF Account
  <2> QED BY <1>1, <2>2, <2>3, CommitInv
<1>3. CASE OnboardCommit(c)
  <2> DEFINE p == call[c].email
  <2>1. p \in People /\ call[c].as \in {"owner", "member"} /\ invite' = invite
    BY <1>1, <1>3 DEF OnboardCommit, CallType
  <2>2. user' \in [People -> [role : {"none", "owner", "member"}, profile : BOOLEAN, gmail : 0 .. MaxGmail]]
    BY <1>1, <1>3, <2>1, AccountsAssumption DEF OnboardCommit, AcTypes, NewUser
  <2>3. joined \subseteq joined' /\ joined' \subseteq joined \cup {<<p, NoInvite>>}
    BY <1>3 DEF OnboardCommit
  <2>4. AcTypes'
    BY <1>1, <2>1, <2>2, <2>3 DEF AcTypes
  <2>5. InvitationsSpent'
    BY <1>1, <2>1, <2>3, AccountsAssumption DEF InvitationsSpent
  <2> QED BY <1>1, <2>1, <2>4, <2>5, CommitInv
<1>4. CASE InviteCommit(c)
  <2>1. call[c].email \in People /\ call[c].as \in People /\ UNCHANGED <<user, joined>>
    BY <1>1, <1>4 DEF InviteCommit, CallType
  <2>2. CASE invite' = invite
    <3>1. AcTypes' /\ InvitationsSpent'
      BY <1>1, <2>1, <2>2 DEF AcTypes, InvitationsSpent
    <3> QED BY <1>1, <2>2, <3>1, CommitInv
  <2>3. ASSUME NEW i \in Invites, invite[i].status = "absent",
               invite' = [invite EXCEPT ![i] = [email |-> call[c].email, by |-> call[c].as,
                                                status |-> "pending"]]
        PROVE  AcInv'
    <3>1. \A j \in Invites : j # i => invite'[j] = invite[j]
      BY <1>1, <2>3 DEF AcTypes
    <3>2. invite'[i].status = "pending"
      BY <1>1, <2>3 DEF AcTypes
    <3>3. AcTypes'
      BY <1>1, <2>1, <2>3 DEF AcTypes, Statuses
    <3>4. InvitationsSpent'
      BY <1>1, <2>1, <2>3, <3>1, <3>2 DEF InvitationsSpent
    <3> QED BY <1>1, <2>3, <3>1, <3>3, <3>4, CommitInv
  <2> QED BY <1>4, <2>2, <2>3 DEF InviteCommit
<1>5. CASE RevokeCommit(c)
  <2>1. UNCHANGED <<user, joined>>
    BY <1>5 DEF RevokeCommit
  <2>2. \A j \in Invites : /\ invite'[j].email = invite[j].email
                           /\ invite'[j].by = invite[j].by
                           /\ invite'[j].status \in {invite[j].status, "revoked"}
                           /\ invite[j].status = "gone" => invite'[j].status = "gone"
    BY <1>1, <1>5 DEF RevokeCommit, AcTypes
  <2>3. AcTypes'
    <3>1. PICK s \in Statuses : invite' = [invite EXCEPT ![call[c].invite].status = s]
      <4>1. CASE invite[call[c].invite].status = "gone"
        BY <1>5, <4>1 DEF RevokeCommit, Statuses
      <4>2. CASE invite[call[c].invite].status # "gone"
        BY <1>5, <4>2 DEF RevokeCommit, Statuses
      <4> QED BY <4>1, <4>2
    <3> QED BY <1>1, <2>1, <3>1 DEF AcTypes
  <2>4. InvitationsSpent'
    BY <1>1, <2>1, <2>2 DEF InvitationsSpent
  <2> QED BY <1>1, <2>2, <2>3, <2>4, CommitInv
<1> QED BY <1>2, <1>3, <1>4, <1>5

LEMMA SettingsInv ==
  ASSUME AcInv, NEW p \in People, ConnectAnother(p) \/ Disconnect(p) \/ Delete(p) \/ Reset(p)
  PROVE  AcInv'
<1>1. AcTypes /\ InvitationsSpent
  BY DEF AcInv
<1>2. CASE ConnectAnother(p) \/ Disconnect(p) \/ Reset(p)
  <2>1. UNCHANGED <<invite, call, joined>>
    BY <1>2 DEF ConnectAnother, Disconnect, Reset
  <2>2. user' \in [People -> [role : {"none", "owner", "member"}, profile : BOOLEAN, gmail : 0 .. MaxGmail]]
    <3>1. CASE ConnectAnother(p)
      BY <1>1, <3>1, AccountsAssumption DEF ConnectAnother, AcTypes
    <3>2. CASE Disconnect(p)
      BY <1>1, <3>2, AccountsAssumption DEF Disconnect, AcTypes
    <3>3. CASE Reset(p)
      <4> DEFINE R == [role : {"none", "owner", "member"}, profile : BOOLEAN, gmail : 0 .. MaxGmail]
                 r == [user[p] EXCEPT !.profile = FALSE]
      <4>1. r \in R /\ user \in [People -> R]
        BY <1>1 DEF AcTypes
      <4>2. [r EXCEPT !.gmail = 0] \in R
        <5> HIDE DEF r
        <5> QED BY <4>1, AccountsAssumption
      <4>3. user' = [user EXCEPT ![p] = [r EXCEPT !.gmail = 0]]
        BY <3>3, <4>1 DEF Reset
      <4> HIDE DEF r
      <4> QED BY <4>1, <4>2, <4>3
    <3> QED BY <1>2, <3>1, <3>2, <3>3
  <2>3. AcTypes' /\ InvitationsSpent'
    BY <1>1, <2>1, <2>2 DEF AcTypes, InvitationsSpent
  <2> QED BY <2>1, <2>3, CommitInv
<1>3. CASE Delete(p)
  <2>1. /\ user' = [user EXCEPT ![p] = NoUser] /\ joined' = joined
        /\ DOMAIN call' = Calls
        /\ \A d \in Calls : call'[d] = call[d] \/ call'[d] = NoCall
    BY <1>3 DEF Delete
  <2>2. \A j \in Invites : \/ invite'[j] = invite[j]
                           \/ invite'[j].status = "gone" /\ invite'[j].email = Nobody
    BY <1>3 DEF Delete, NoInvitation
  <2>3. invite' \in [Invites -> [email : People \cup {Nobody}, by : People \cup {Nobody},
                                 status : Statuses]]
    BY <1>1, <1>3 DEF Delete, AcTypes, NoInvitation, Statuses
  <2>4. AcTypes'
    BY <1>1, <2>1, <2>3, AccountsAssumption DEF AcTypes, NoUser
  <2>5. InvitationsSpent'
    BY <1>1, <2>1, <2>2 DEF InvitationsSpent
  <2>6. \A d \in Calls : /\ call'[d].kind = "join" => call'[d] = call[d]
                         /\ call'[d] = call[d] \/ CallType(call'[d])
    BY <2>1 DEF NoCall, CallType
  <2> QED BY <2>2, <2>4, <2>5, <2>6, CommitInv
<1> QED BY <1>2, <1>3

LEMMA AcStepInv == AcInv /\ [AcNext]_acVars => AcInv'
<1>1. AcInv /\ UNCHANGED acVars => AcInv'
  BY DEF acVars, AcInv, AcTypes, CallType, Invited, InvitationsSpent
<1> QED BY <1>1, ReadsInv, JoinInv, CommitsInv, SettingsInv DEF AcNext

(* Users, invitations and what was joined always have their type.           *)
THEOREM AcTypeCorrect == AcSpec => []AcTypeOK
<1>1. AcInv => AcTypeOK
  BY DEF AcInv, AcTypes, AcTypeOK, Statuses
<1> QED BY <1>1, AcInitInv, AcStepInv, PTL DEF AcSpec

(* An invitation is "accepted" only by the user it let in, and one that let *)
(* somebody in is spent (_get_or_create_user, auth.py), for any number of   *)
(* people, invitations and handlers whose reads and commits interleave with *)
(* each other, with revocations and with the deletion of users.             *)
THEOREM InvitationsAreSpent == AcSpec => []InvitationsSpent
<1>1. AcInv => InvitationsSpent
  BY DEF AcInv
<1> QED BY <1>1, AcInitInv, AcStepInv, PTL DEF AcSpec

-----------------------------------------------------------------------------
(* The request limiter.  Of what a window still counts, Redis forgets       *)
(* nothing; in the process the requests since the start of the window are   *)
(* no more than its count, and those of a window before it no more than a   *)
(* full one.                                                                *)
From(S, t) == {e \in S : e[1] >= t}

RlRedis == \A e \in let : Counts(e) => e \in seen

RlMemory ==
  \/ bucket.start = -1 /\ let = {}
  \/ /\ bucket.start \in 0 .. now
     /\ Cardinality(From(let, bucket.start)) <= bucket.count
     /\ Cardinality(Span(let, bucket.start - Window)) <= Limit
     /\ \A e \in let : e[1] <= bucket.start + Window

RlInv ==
  /\ RlTypeOK /\ IsFiniteSet(seen) /\ IsFiniteSet(let)
  /\ \A e \in let : e[1] <= now
  /\ store = "redis" => RlRedis
  /\ store = "memory" => RlMemory
  /\ WindowBound

LEMMA RlInitInv == RlInit => RlInv
<1> SUFFICES ASSUME RlInit PROVE RlInv
  OBVIOUS
<1>1. IsFiniteSet({}) /\ Cardinality({}) = 0
  BY FS_EmptySet
<1>2. RlTypeOK
  BY LimitAssumption DEF RlInit, RlTypeOK, Ticks
<1>3. \A t \in Ticks : Span(let, t) = {}
  BY DEF RlInit, Span
<1>4. WindowBound
  BY <1>1, <1>3, LimitAssumption DEF WindowBound
<1> QED BY <1>1, <1>2, <1>4 DEF RlInit, RlInv, RlRedis, RlMemory

(* Smaller sets, and one more.                                              *)
LEMMA Fewer ==
  ASSUME NEW S, NEW T, IsFiniteSet(S), T \subseteq S
  PROVE  IsFiniteSet(T) /\ Cardinality(T) <= Cardinality(S)
         /\ Cardinality(T) \in Nat /\ Cardinality(S) \in Nat
BY FS_Subset, FS_CardinalityType

LEMMA OneMore ==
  ASSUME NEW S, NEW T, NEW x, IsFiniteSet(S), T \subseteq S \cup {x}
  PROVE  IsFiniteSet(T) /\ Cardinality(T) \in Nat /\ Cardinality(S) \in Nat
         /\ Cardinality(T) <= Cardinality(S) + 1
<1>1. /\ IsFiniteSet(S \cup {x}) /\ Cardinality(S \cup {x}) <= Cardinality(S) + 1
      /\ Cardinality(S) \in Nat /\ Cardinality(S \cup {x}) \in Nat
  BY FS_AddElement, FS_CardinalityType
<1> QED BY <1>1, Fewer

LEMMA NewType ==
  ASSUME RlTypeOK, NEW S, IsFiniteSet(S)
  PROVE  New(S) \in Ticks \X (Nat \ {0}) /\ New(S)[1] = now
<1>1. At(S, now) \subseteq S
  BY DEF At
<1>2. Cardinality(At(S, now)) \in Nat
  BY <1>1, Fewer
<1> QED BY <1>2 DEF New, RlTypeOK

LEMMA RedisInv ==
  ASSUME RlInv, AskRedis
  PROVE  RlInv'
<1>1. /\ RlTypeOK /\ store = "redis" /\ RlRedis /\ now \in Nat /\ Window \in Nat \ {0}
      /\ Limit \in Nat \ {0} /\ UNCHANGED <<store, now, bucket, redisUp>>
      /\ \A e \in let : e[1] \in Nat
      /\ IsFiniteSet(seen) /\ IsFiniteSet(let)
  BY LimitAssumption DEF RlInv, RlTypeOK, AskRedis, Ticks
<1>2. link' \in {"none", "up", "stuck"}
  BY DEF AskRedis
<1>3. CASE UNCHANGED <<seen, let>>
  BY <1>1, <1>2, <1>3 DEF RlInv, RlTypeOK, RlRedis, Counts, WindowBound
<1>4. CASE Slide
  <2> DEFINE recent == {e \in seen : Counts(e)}
             n == New(seen)
  <2>1. n \in Ticks \X (Nat \ {0}) /\ n[1] = now
    BY <1>1, NewType
  <2>2. seen' = recent \cup {n} /\ recent \subseteq seen /\ IsFiniteSet(recent)
    BY <1>1, <1>4, Fewer DEF Slide
  <2>3. IsFiniteSet(seen')
    BY <2>2, FS_AddElement
  <2>4. (Cardinality(recent) < Limit /\ let' = let \cup {n}) \/ let' = let
    BY <1>4 DEF Slide, Let
  <2>5. \A e \in let : Counts(e) => e \in recent
    BY <1>1 DEF RlRedis
  <2> HIDE DEF recent, n
  <2>6. IsFiniteSet(let') /\ \A e \in let' : e[1] <= now
    BY <1>1, <2>1, <2>4, FS_AddElement DEF RlInv
  <2>7. RlTypeOK'
    BY <1>1, <1>2, <2>1, <2>2, <2>4 DEF RlTypeOK
  <2>8. RlRedis'
    BY <1>1, <2>2, <2>4, <2>5 DEF RlRedis, Counts
  <2>9. ASSUME NEW t \in Ticks PROVE Cardinality(Span(let', t)) <= Limit
    <3>1. t \in Nat /\ Cardinality(Span(let, t)) <= Limit
      BY <1>1 DEF Ticks, RlInv, WindowBound
    <3>2. CASE let' = let
      BY <3>1, <3>2
    <3>3. CASE t + Window <= now /\ let' = let \cup {n}
      <4>1. Span(let', t) = Span(let, t)
        BY <1>1, <2>1, <3>1, <3>3 DEF Span
      <4> QED BY <3>1, <4>1
    <3>4. CASE t + Window > now /\ let' = let \cup {n} /\ Cardinality(recent) < Limit
      <4>1. \A e \in let : t <= e[1] => Counts(e)
        BY <1>1, <3>1, <3>4 DEF Counts
      <4>2. Span(let', t) \subseteq recent \cup {n}
        BY <2>5, <3>4, <4>1 DEF Span
      <4>3. Cardinality(Span(let', t)) <= Cardinality(recent) + 1
            /\ Cardinality(Span(let', t)) \in Nat /\ Cardinality(recent) \in Nat
        BY <2>2, <4>2, OneMore
      <4> QED BY <1>1, <3>4, <4>3
    <3> QED BY <1>1, <2>4, <3>1, <3>2, <3>3, <3>4
  <2>10. WindowBound'
    BY <1>1, <2>9 DEF WindowBound, Span
  <2> QED BY <1>1, <2>3, <2>6, <2>7, <2>8, <2>10 DEF RlInv
<1> QED BY <1>3, <1>4 DEF AskRedis, LetOpen

LEMMA MemoryInv ==
  ASSUME RlInv, AskMemory
  PROVE  RlInv'
<1> DEFINE n == New(let)
           s == bucket.start
<1>1. /\ RlTypeOK /\ store = "memory" /\ RlMemory /\ now \in Nat /\ Window \in Nat \ {0}
      /\ Limit \in Nat \ {0} /\ UNCHANGED <<store, now, seen, link, redisUp, open>>
      /\ \A e \in let : e[1] \in Nat
      /\ IsFiniteSet(seen) /\ IsFiniteSet(let) /\ bucket.count \in 0 .. Limit /\ s \in Ticks \cup {-1}
  BY LimitAssumption DEF RlInv, RlTypeOK, AskMemory, Ticks
<1>2. n \in Ticks \X (Nat \ {0}) /\ n[1] = now
  BY <1>1, NewType
<1>3. CASE UNCHANGED <<bucket, let>>
  BY <1>1, <1>3 DEF RlInv, RlTypeOK, RlMemory, WindowBound
<1>4. ASSUME let' = let \cup {n}, bucket' \in [count : 0 .. Limit, start : Ticks \cup {-1}],
             RlMemory', WindowBound'
      PROVE  RlInv'
  <2> HIDE DEF n
  <2>1. IsFiniteSet(let') /\ \A e \in let' : e[1] <= now
    BY <1>1, <1>2, <1>4, FS_AddElement DEF RlInv
  <2>2. RlTypeOK'
    BY <1>1, <1>2, <1>4 DEF RlTypeOK
  <2> QED BY <1>1, <1>4, <2>1, <2>2 DEF RlInv
(* A window begins: the last one is over, so what is in reach of the new     *)
(* one came after the last one's start.                                     *)
<1>5. CASE /\ s < 0 \/ now - s > Window
           /\ bucket' = [count |-> 1, start |-> now] /\ let' = let \cup {n}
  <2> HIDE DEF n
  <2>1. Cardinality(Span(let, now - Window)) <= Limit
    <3>1. CASE s = -1
      <4>1. Span(let, now - Window) = {}
        BY <1>1, <3>1 DEF RlMemory, Span
      <4>2. Cardinality(Span(let, now - Window)) = 0
        BY <4>1, FS_EmptySet
      <4> QED BY <1>1, <4>2
    <3>2. CASE s \in 0 .. now
      <4>1. Span(let, now - Window) \subseteq From(let, s) /\ From(let, s) \subseteq let
        BY <1>1, <1>5, <3>2 DEF Span, From
      <4>2. Cardinality(From(let, s)) <= bucket.count
        BY <1>1, <3>2 DEF RlMemory
      <4>3. IsFiniteSet(From(let, s))
        BY <1>1, <4>1, Fewer
      <4>4. /\ Cardinality(Span(let, now - Window)) <= Cardinality(From(let, s))
            /\ Cardinality(Span(let, now - Window)) \in Nat /\ Cardinality(From(let, s)) \in Nat
        BY <4>1, <4>3, Fewer
      <4> QED BY <1>1, <4>2, <4>4
    <3> QED BY <1>1, <3>1, <3>2 DEF RlMemory
  <2>2. Span(let', now - Window) = Span(let, now - Window)
    BY <1>1, <1>2, <1>5 DEF Span
  <2>3. \A e \in let : e[1] < now
    BY <1>1, <1>5 DEF RlMemory
  <2>4. From(let', now) = {n}
    BY <1>1, <1>2, <1>5, <2>3 DEF From
  <2>5. RlMemory'
    <3>1. Cardinality({n}) = 1
      BY FS_Singleton
    <3>2. \A e \in let' : e[1] <= now + Window
      BY <1>1, <1>2, <1>5, <2>3
    <3>3. /\ bucket'.start = now /\ bucket'.count = 1 /\ now' = now
          /\ Cardinality(From(let', now)) <= 1 /\ Cardinality(Span(let', now - Window)) <= Limit
      <4>1. Cardinality(From(let', now)) = 1
        BY <2>4, <3>1
      <4>2. Cardinality(Span(let', now - Window)) <= Limit
        BY <2>1, <2>2
      <4> QED BY <1>1, <1>5, <4>1, <4>2
    <3>4. From(let, bucket.start)' = From(let', now)
          /\ Span(let, bucket.start - Window)' = Span(let', now - Window)
      BY <3>3 DEF From, Span
    <3> QED BY <1>1, <3>2, <3>3, <3>4 DEF RlMemory
  <2>6. ASSUME NEW t \in Ticks PROVE Cardinality(Span(let', t)) <= 2 * Limit
    <3>1. t \in Nat /\ Cardinality(Span(let, t)) <= 2 * Limit
      BY <1>1, <2>6 DEF Ticks, RlInv, WindowBound
    <3>2. CASE t + Window <= now
      <4>1. Span(let', t) = Span(let, t)
        BY <1>1, <1>2, <1>5, <3>1, <3>2 DEF Span
      <4> QED BY <3>1, <4>1
    <3>3. CASE t + Window > now
      <4>1. Span(let', t) \subseteq Span(let, now - Window) \cup {n}
        BY <1>1, <1>5, <2>3, <3>1, <3>3 DEF Span
      <4>2. IsFiniteSet(Span(let, now - Window))
        BY <1>1, Fewer DEF Span
      <4>3. /\ Cardinality(Span(let', t)) <= Cardinality(Span(let, now - Window)) + 1
            /\ Cardinality(Span(let', t)) \in Nat /\ Cardinality(Span(let, now - Window)) \in Nat
        BY <4>1, <4>2, OneMore
      <4> QED BY <1>1, <2>1, <4>3
    <3> QED BY <1>1, <3>1, <3>2, <3>3
  <2>7. WindowBound'
    BY <1>1, <2>6 DEF WindowBound, Span
  <2>8. bucket' \in [count : 0 .. Limit, start : Ticks \cup {-1}]
    BY <1>1, <1>5 DEF RlTypeOK
  <2> QED BY <1>4, <1>5, <2>5, <2>7, <2>8
(* The window goes on and has room.                                          *)
<1>6. CASE /\ s >= 0 /\ now - s <= Window /\ bucket.count < Limit
           /\ bucket' = [bucket EXCEPT !.count = @ + 1] /\ let' = let \cup {n}
  <2> HIDE DEF n
  <2>1. /\ s \in 0 .. now /\ Cardinality(From(let, s)) <= bucket.count
        /\ Cardinality(Span(let, s - Window)) <= Limit
        /\ \A e \in let : e[1] <= s + Window
    BY <1>1, <1>6 DEF RlMemory
  <2>2. /\ bucket'.start = s /\ bucket'.count = bucket.count + 1
        /\ bucket' \in [count : 0 .. Limit, start : Ticks \cup {-1}]
    BY <1>1, <1>6 DEF RlTypeOK
  <2>3. IsFiniteSet(From(let, s)) /\ IsFiniteSet(Span(let, s - Window))
    BY <1>1, Fewer DEF From, Span
  <2>4. /\ Cardinality(From(let', s)) <= Cardinality(From(let, s)) + 1
        /\ Cardinality(From(let', s)) \in Nat /\ Cardinality(From(let, s)) \in Nat
        /\ IsFiniteSet(From(let', s))
    <3>1. From(let', s) \subseteq From(let, s) \cup {n}
      BY <1>6 DEF From
    <3> QED BY <2>3, <3>1, OneMore
  <2>5. Span(let', s - Window) = Span(let, s - Window)
    BY <1>1, <1>2, <1>6, <2>1 DEF Span
  <2>6. Cardinality(From(let', s)) <= bucket.count + 1 /\ bucket.count + 1 <= Limit
    BY <1>1, <1>6, <2>1, <2>4
  <2>7. RlMemory'
    <3>1. \A e \in let' : e[1] <= s + Window
      BY <1>1, <1>2, <1>6, <2>1
    <3> QED BY <1>1, <2>1, <2>2, <2>5, <2>6, <3>1 DEF RlMemory, From, Span
  <2>8. ASSUME NEW t \in Ticks PROVE Cardinality(Span(let', t)) <= 2 * Limit
    <3>1. t \in Nat /\ Cardinality(Span(let, t)) <= 2 * Limit
      BY <1>1, <2>8 DEF Ticks, RlInv, WindowBound
    <3>2. CASE t + Window <= s
      <4>1. Span(let', t) = Span(let, t)
        BY <1>1, <1>2, <1>6, <2>1, <3>1, <3>2 DEF Span
      <4> QED BY <3>1, <4>1
    <3>3. CASE t + Window > s
      <4>1. Span(let', t) \subseteq Span(let, s - Window) \cup From(let', s)
        BY <1>1, <1>2, <1>6, <2>1, <3>1, <3>3 DEF Span, From
      <4>2. /\ IsFiniteSet(Span(let, s - Window) \cup From(let', s))
            /\ Cardinality(Span(let, s - Window) \cup From(let', s))
                 = Cardinality(Span(let, s - Window)) + Cardinality(From(let', s))
                   - Cardinality(Span(let, s - Window) \cap From(let', s))
        BY <2>3, <2>4, FS_Union
      <4>3. Cardinality(Span(let, s - Window) \cap From(let', s)) \in Nat
            /\ Cardinality(Span(let, s - Window)) \in Nat
        BY <2>3, Fewer
      <4>4. Cardinality(Span(let', t)) <= Cardinality(Span(let, s - Window) \cup From(let', s))
            /\ Cardinality(Span(let', t)) \in Nat
        BY <4>1, <4>2, Fewer
      <4> QED BY <1>1, <2>1, <2>4, <2>6, <4>2, <4>3, <4>4
    <3> QED BY <1>1, <2>1, <3>1, <3>2, <3>3
  <2>9. WindowBound'
    BY <1>1, <2>8 DEF WindowBound, Span
  <2> QED BY <1>4, <1>6, <2>2, <2>7, <2>9
<1> QED BY <1>3, <1>5, <1>6 DEF AskMemory, Let

LEMMA RlStepInv == RlInv /\ [RlNext]_rlVars => RlInv'
<1> SUFFICES ASSUME RlInv, [RlNext]_rlVars PROVE RlInv'
  OBVIOUS
<1>1. CASE Tick
  <2>1. /\ now \in Nat /\ Horizon \in Nat /\ Window \in Nat /\ now' = now + 1 /\ now' \in Ticks
        /\ \A e \in let \cup seen : e[1] \in Nat
        /\ UNCHANGED <<store, seen, bucket, link, redisUp, let, open>>
    BY <1>1, LimitAssumption DEF Tick, RlInv, RlTypeOK, Ticks
  <2>2. RlRedis => RlRedis'
    BY <2>1 DEF RlRedis, Counts
  <2>3. RlMemory => RlMemory'
    BY <2>1 DEF RlMemory
  <2>4. WindowBound => WindowBound'
    BY <2>1 DEF WindowBound
  <2>5. \A e \in let : e[1] <= now => e[1] <= now'
    BY <2>1
  <2> QED BY <2>1, <2>2, <2>3, <2>4, <2>5 DEF RlInv, RlTypeOK
<1>2. CASE Toggle \/ UNCHANGED rlVars
  <2>1. UNCHANGED <<store, now, seen, bucket, link, let>>
    BY <1>2 DEF Toggle, rlVars
  <2> QED BY <2>1 DEF RlInv, RlTypeOK, RlRedis, RlMemory, WindowBound, Counts
<1> QED BY <1>1, <1>2, RedisInv, MemoryInv DEF RlNext, Request

(* The limiter always has its type.                                         *)
THEOREM RlTypeCorrect == RlSpec => []RlTypeOK
<1>1. RlInv => RlTypeOK
  BY DEF RlInv
<1> QED BY <1>1, RlInitInv, RlStepInv, PTL DEF RlSpec

(* However requests fall, no span of a window's length has more than the    *)
(* limit of those Redis counted, nor more than twice the limit of those the *)
(* process counted (is_allowed, rate_limiter.py): for any limit, window and *)
(* horizon.                                                                 *)
THEOREM WindowsBounded == RlSpec => []WindowBound
<1>1. RlInv => WindowBound
  BY DEF RlInv
<1> QED BY <1>1, RlInitInv, RlStepInv, PTL DEF RlSpec

-----------------------------------------------------------------------------
(* The sessions.  What a reply may do to the browser's cookies: nothing of   *)
(* the session and the factor, drop the session, set both to one token, or, *)
(* alone under way, a session no row has passed in or the factor of the one *)
(* that is in the jar.                                                      *)
Drawn == 1 .. drawn \cup {None}
Fields == {"pc", "kind", "sent", "row", "reply"}

Silent(q) == "session" \notin DOMAIN q.reply /\ factor \notin DOMAIN q.reply
SetsBoth(q) ==
  "session" \in DOMAIN q.reply
  /\ \/ q.reply["session"] = None
     \/ factor \in Cookies => factor \in DOMAIN q.reply /\ q.reply[factor] = q.reply["session"]
SignsIn(q) ==
  /\ q.pc # "idle" /\ q.kind \in SignInKinds
  /\ \/ /\ "session" \in DOMAIN q.reply /\ factor \notin DOMAIN q.reply
        /\ \A i \in passed : row[i].token # q.reply["session"]
     \/ /\ "session" \notin DOMAIN q.reply /\ factor \in DOMAIN q.reply
        /\ q.reply[factor] = jar["session"]

SentOK(q) ==
  /\ DOMAIN q = Fields
  /\ q.pc # "idle" =>
       /\ q.sent \in [Cookies -> Drawn]
       /\ q.kind = "code" => factor = "totp"
       /\ q.kind \in {"assert", "keylogin"} => factor = "passkey"
  /\ q.pc \in {"rotate", "handle"} => q.kind \in UserKinds
  /\ q.pc = "rotate" =>
       /\ q.row \in Rows /\ q.sent["session"] # None
       /\ SignedOver(q.sent, q.sent["session"])
  /\ q.pc = "lookup" => Silent(q)
  /\ q.pc = "handle" => Silent(q) \/ SetsBoth(q)
ReplyOK(q) ==
  /\ DOMAIN q.reply \subseteq Cookies
  /\ \A c \in DOMAIN q.reply : q.reply[c] \in Drawn
  /\ Silent(q) \/ SetsBoth(q) \/ SignsIn(q)

SsTypes ==
  /\ factor \in Factors /\ deletion \in {"none", "ahead", "past"}
  /\ drawn \in 0 .. MaxTokens /\ states \in {0, 1}
  /\ row \in [Rows -> [token : Drawn, rotated : {"never", "recent", "old"},
                       life : {"absent", "valid", "expired", "ended"}]]
  /\ \A i \in Rows : Stored(i) => row[i].token # None
  /\ jar \in [Cookies -> Drawn] /\ passed \subseteq Rows /\ DOMAIN req = Requests

(* A sign-in request is alone, and was sent with the cookies there are.     *)
SignInAlone ==
  \A r \in Requests : req[r].pc # "idle" /\ req[r].kind \in SignInKinds =>
    req[r].sent = jar /\ \A s \in Requests \ {r} : req[s].pc = "idle"

SsInv ==
  /\ SsTypes /\ SignInAlone /\ FactorFollowsSession
  /\ \A r \in Requests : SentOK(req[r]) /\ ReplyOK(req[r])

LEMMA IdleOK == SentOK(NoRequest) /\ ReplyOK(NoRequest) /\ NoRequest.pc = "idle"
<1>1. DOMAIN NoRequest.reply = {} /\ DOMAIN NoRequest = Fields /\ NoRequest.pc = "idle"
  BY DEF NoRequest, Fields
<1> QED BY <1>1 DEF SentOK, ReplyOK, Silent

LEMMA SsInitInv == SsInit => SsInv
<1> SUFFICES ASSUME SsInit PROVE SsInv
  OBVIOUS
<1>1. /\ \A r \in Requests : req[r] = NoRequest
      /\ \A i \in Rows : row[i] = NoRow
      /\ None \in Drawn
  BY DEF SsInit, Drawn
<1>2. NoRow \in [token : Drawn, rotated : {"never", "recent", "old"},
                 life : {"absent", "valid", "expired", "ended"}]
  BY <1>1 DEF NoRow
<1>3. SsTypes
  BY <1>1, <1>2, SessionsAssumption DEF SsInit, SsTypes, Stored, NoRow
<1>4. SignInAlone /\ FactorFollowsSession
  BY <1>1, IdleOK DEF SsInit, SignInAlone, FactorFollowsSession
<1> QED BY <1>1, <1>3, <1>4, IdleOK DEF SsInv

LEMMA MoveInv ==
  ASSUME SsInv, NEW r \in Requests, req[r].pc # "idle",
         \A s \in Requests \ {r} : req'[s] = req[s],
         req'[r].kind = req[r].kind, req'[r].sent = req[r].sent,
         SentOK(req[r])', ReplyOK(req[r])',
         UNCHANGED <<factor, jar, passed>>, Drawn \subseteq Drawn',
         SsTypes', FactorFollowsSession'
  PROVE  SsInv'
<1>1. SignInAlone'
  BY DEF SsInv, SignInAlone
<1>2. ASSUME NEW s \in Requests, s # r PROVE SentOK(req[s])' /\ ReplyOK(req[s])'
  <2>1. SentOK(req[s]) /\ ReplyOK(req[s]) /\ req'[s] = req[s]
    BY <1>2 DEF SsInv
  <2>2. SentOK(req[s])'
    BY <2>1 DEF SentOK, Silent, SetsBoth, SignedOver
  <2>3. ~SignsIn(req[s])
    BY <1>2 DEF SsInv, SignInAlone, SignsIn
  <2>4. ReplyOK(req[s])'
    BY <2>1, <2>3 DEF ReplyOK, Silent, SetsBoth
  <2> QED BY <2>2, <2>4
<1> QED BY <1>1, <1>2 DEF SsInv

Answers(r, pc, reply) == req' = [req EXCEPT ![r].pc = pc, ![r].reply = reply]

LEMMA Became ==
  ASSUME SsInv, NEW r \in Requests, NEW pc, NEW reply, Answers(r, pc, reply)
  PROVE  /\ DOMAIN req' = Requests /\ \A s \in Requests \ {r} : req'[s] = req[s]
         /\ DOMAIN req'[r] = Fields
         /\ req'[r].pc = pc /\ req'[r].reply = reply
         /\ req'[r].kind = req[r].kind /\ req'[r].sent = req[r].sent /\ req'[r].row = req[r].row
<1>1. DOMAIN req = Requests /\ DOMAIN req[r] = Fields
  BY DEF SsInv, SsTypes, SentOK
<1>2. req'[r] = [req[r] EXCEPT !.pc = pc, !.reply = reply]
  BY <1>1 DEF Answers
<1>3. DOMAIN req' = Requests /\ \A s \in Requests \ {r} : req'[s] = req[s]
  BY <1>1 DEF Answers
<1> QED BY <1>1, <1>2, <1>3 DEF Fields

(* A refused request, and a row that ends or ages.                          *)
LEMMA SameRows ==
  ASSUME SsInv, UNCHANGED <<factor, deletion, row, drawn, states, jar, passed>>, DOMAIN req' = Requests
  PROVE  SsTypes' /\ FactorFollowsSession' /\ Drawn' = Drawn
BY DEF SsInv, SsTypes, FactorFollowsSession, Drawn, Stored, SignedOver

LEMMA SameTokens ==
  ASSUME SsInv, UNCHANGED <<factor, drawn, states, jar, passed>>, DOMAIN req' = Requests,
         deletion' \in {"none", "ahead", "past"},
         row' \in [Rows -> [token : Drawn, rotated : {"never", "recent", "old"},
                            life : {"absent", "valid", "expired", "ended"}]],
         \A i \in Rows : \/ row'[i].life \in {"absent", "ended"}
                         \/ /\ row'[i].token = row[i].token
                            /\ row[i].life \in {"valid", "expired"}
                            /\ row'[i].life = "valid" => row[i].life = "valid"
  PROVE  SsTypes' /\ FactorFollowsSession' /\ Drawn' = Drawn
<1>1. Drawn' = Drawn
  BY DEF Drawn
<1>2. SsTypes'
  BY <1>1 DEF SsInv, SsTypes, Stored
<1>3. FactorFollowsSession'
  <2>1. ASSUME NEW i \in passed, row'[i].life = "valid", row'[i].token = jar["session"]
        PROVE  SignedOver(jar, jar["session"])
    BY <2>1 DEF SsInv, SsTypes, FactorFollowsSession
  <2> QED BY <2>1 DEF FactorFollowsSession, SignedOver
<1> QED BY <1>1, <1>2, <1>3

LEMMA RefusedInv ==
  ASSUME SsInv, NEW r \in Requests, req[r].pc # "idle", Refuse(r),
         UNCHANGED <<factor, jar, passed>>, SsTypes', FactorFollowsSession', Drawn' = Drawn
  PROVE  SsInv'
<1>1. DOMAIN <<>> = {}
  OBVIOUS
<1>3. Answers(r, "reply", <<>>)
  BY DEF Refuse, Answers
<1>2. /\ \A s \in Requests \ {r} : req'[s] = req[s]
      /\ DOMAIN req'[r] = Fields /\ req'[r].pc = "reply" /\ DOMAIN req'[r].reply = {}
      /\ req'[r].kind = req[r].kind /\ req'[r].sent = req[r].sent
  BY <1>1, <1>3, Became
<1>4. SentOK(req[r])' /\ ReplyOK(req[r])'
  <2>1. SentOK(req[r])
    BY DEF SsInv
  <2> QED BY <1>2, <2>1 DEF SentOK, ReplyOK, Silent
<1> QED BY <1>2, <1>4, MoveInv

LEMMA SendInv ==
  ASSUME SsInv, NEW r \in Requests, NEW kind, Send(r, kind)
  PROVE  SsInv'
<1> DEFINE q == [NoRequest EXCEPT !.pc = "lookup", !.kind = kind, !.sent = jar]
<1>1. /\ q.pc = "lookup" /\ q.kind = kind /\ q.sent = jar
      /\ DOMAIN q = Fields /\ DOMAIN q.reply = {}
  BY DEF NoRequest, Fields
<1>2. req' = [req EXCEPT ![r] = q] /\ DOMAIN req = Requests
  BY DEF Send, SsInv, SsTypes
<1> HIDE DEF q
<1>3. req'[r] = q /\ DOMAIN req' = Requests /\ \A s \in Requests \ {r} : req'[s] = req[s]
  BY <1>2
<1>4. UNCHANGED <<factor, deletion, row, drawn, states, jar, passed>>
  BY DEF Send
<1>5. SsTypes' /\ FactorFollowsSession' /\ Drawn' = Drawn
  BY <1>3, <1>4, SameRows
<1>6. SignInAlone'
  BY <1>1, <1>3, <1>4 DEF Send, Alone, SsInv, SignInAlone
<1>7. SentOK(req[r])' /\ ReplyOK(req[r])'
  <2>1. (kind = "code" => factor = "totp") /\ (kind \in {"assert", "keylogin"} => factor = "passkey")
    BY DEF Send
  <2> QED BY <1>1, <1>3, <1>4, <1>5, <2>1 DEF SentOK, ReplyOK, Silent, SsInv, SsTypes
<1>8. ASSUME NEW s \in Requests \ {r} PROVE SentOK(req[s])' /\ ReplyOK(req[s])'
  BY <1>3, <1>4, <1>5 DEF SsInv, SentOK, ReplyOK, Silent, SetsBoth, SignsIn, SignedOver
<1> QED BY <1>5, <1>6, <1>7, <1>8 DEF SsInv

LEMMA AuthenticateInv ==
  ASSUME SsInv, NEW r \in Requests, Authenticate(r)
  PROVE  SsInv'
<1> DEFINE sent == req[r].sent
<1>1. /\ req[r].pc = "lookup" /\ req[r].kind \in UserKinds /\ sent \in [Cookies -> Drawn]
      /\ UNCHANGED <<factor, deletion, drawn, states, jar, passed>>
      /\ SentOK(req[r]) /\ ReplyOK(req[r]) /\ DOMAIN req = Requests
  BY DEF Authenticate, SsInv, SsTypes, SentOK
<1>2. CASE Refuse(r) /\ UNCHANGED row
  <2>1. DOMAIN req' = Requests
    BY <1>1, <1>2 DEF Refuse
  <2> QED BY <1>1, <1>2, <2>1, SameRows, RefusedInv
<1>3. ASSUME NEW i \in Rows, Refuse(r), row[i].life = "expired",
             row' = [row EXCEPT ![i].life = "ended"]
      PROVE  SsInv'
  <2>1. DOMAIN req' = Requests
    BY <1>1, <1>3 DEF Refuse
  <2>2. /\ row' \in [Rows -> [token : Drawn, rotated : {"never", "recent", "old"},
                             life : {"absent", "valid", "expired", "ended"}]]
        /\ row'[i].life = "ended" /\ \A j \in Rows \ {i} : row'[j] = row[j]
    BY <1>3 DEF SsInv, SsTypes
  <2>3. \A j \in Rows : \/ row'[j].life \in {"absent", "ended"}
                        \/ /\ row'[j].token = row[j].token
                           /\ row[j].life \in {"valid", "expired"}
                           /\ row'[j].life = "valid" => row[j].life = "valid"
    BY <2>2 DEF SsInv, SsTypes
  <2>4. deletion' \in {"none", "ahead", "past"}
    BY <1>1 DEF SsInv, SsTypes
  <2>5. SsTypes' /\ FactorFollowsSession' /\ Drawn' = Drawn
    BY <1>1, <2>1, <2>2, <2>3, <2>4, SameTokens
  <2> QED BY <1>1, <1>3, <2>5, RefusedInv
<1>4. ASSUME NEW i \in Named(sent["session"]), SignedOver(sent, sent["session"]), UNCHANGED row,
             NEW pc \in {"rotate", "handle"},
             req' = [req EXCEPT ![r].row = i, ![r].pc = pc]
      PROVE  SsInv'
  <2>1. i \in Rows /\ sent["session"] # None
    BY <1>4 DEF Named, SsInv, SsTypes
  <2>2. /\ DOMAIN req[r] = Fields /\ req'[r] = [req[r] EXCEPT !.row = i, !.pc = pc]
        /\ DOMAIN req' = Requests /\ \A s \in Requests \ {r} : req'[s] = req[s]
    BY <1>1, <1>4 DEF SentOK
  <2>3. /\ DOMAIN req'[r] = Fields /\ req'[r].pc = pc /\ req'[r].row = i
        /\ req'[r].kind = req[r].kind /\ req'[r].sent = sent /\ req'[r].reply = req[r].reply
    BY <2>2 DEF Fields
  <2>4. SsTypes' /\ FactorFollowsSession' /\ Drawn' = Drawn
    BY <1>1, <1>4, <2>2, SameRows
  <2>5. SentOK(req[r])'
    BY <1>1, <1>4, <2>1, <2>3, <2>4 DEF SentOK, Silent, SignedOver, Rows
  <2>6. ReplyOK(req[r])'
    BY <1>1, <2>3, <2>4 DEF SentOK, ReplyOK, Silent
  <2> QED BY <1>1, <2>2, <2>3, <2>4, <2>5, <2>6, MoveInv
<1> QED BY <1>2, <1>3, <1>4 DEF Authenticate, Named

(* A new token is in no jar and no reply.                                   *)
LEMMA DrawnGrows ==
  ASSUME SsInv, drawn < MaxTokens, drawn' = drawn + 1
  PROVE  /\ drawn' \in 0 .. MaxTokens /\ drawn' \in Drawn' /\ Drawn \subseteq Drawn'
         /\ drawn' \notin Drawn /\ drawn' # None
BY SessionsAssumption DEF SsInv, SsTypes, Drawn

LEMMA RotateInv ==
  ASSUME SsInv, NEW r \in Requests, Rotate(r)
  PROVE  SsInv'
<1> DEFINE i == req[r].row
           sent == req[r].sent
<1>1. /\ req[r].pc = "rotate" /\ req[r].kind \in UserKinds /\ sent \in [Cookies -> Drawn]
      /\ i \in Rows /\ sent["session"] # None /\ SignedOver(sent, sent["session"])
      /\ UNCHANGED <<factor, deletion, states, jar, passed>>
      /\ DOMAIN req = Requests
  BY DEF Rotate, SsInv, SsTypes, SentOK
<1>2. CASE Refuse(r) /\ UNCHANGED <<row, drawn>>
  <2>1. DOMAIN req' = Requests
    BY <1>1, <1>2 DEF Refuse
  <2> QED BY <1>1, <1>2, <2>1, SameRows, RefusedInv
<1>3. ASSUME Stored(i), drawn < MaxTokens, drawn' = drawn + 1,
             row' = [row EXCEPT ![i].token = drawn + 1, ![i].rotated = "recent"],
             req' = [req EXCEPT ![r].pc = "handle", ![r].reply = Resigned(r, drawn + 1)]
      PROVE  SsInv'
  <2>1. /\ drawn' \in 0 .. MaxTokens /\ drawn' \in Drawn' /\ Drawn \subseteq Drawn'
        /\ drawn' \notin Drawn /\ drawn' # None
    BY <1>3, DrawnGrows
  <2>2. /\ DOMAIN Resigned(r, drawn') \subseteq Cookies /\ "session" \in DOMAIN Resigned(r, drawn')
        /\ \A c \in DOMAIN Resigned(r, drawn') : Resigned(r, drawn')[c] = drawn'
        /\ factor \in Cookies => factor \in DOMAIN Resigned(r, drawn')
    BY <1>1 DEF Resigned, SignedOver, Cookies, Factors, SsInv, SsTypes
  <2>3. Answers(r, "handle", Resigned(r, drawn'))
    BY <1>3 DEF Answers
  <2>4. /\ DOMAIN req' = Requests /\ \A s \in Requests \ {r} : req'[s] = req[s]
        /\ DOMAIN req'[r] = Fields
        /\ req'[r].pc = "handle" /\ req'[r].reply = Resigned(r, drawn')
        /\ req'[r].kind = req[r].kind /\ req'[r].sent = sent
    BY <2>3, Became
  <2>5. /\ row'[i].token = drawn' /\ row'[i].life = row[i].life
        /\ \A j \in Rows \ {i} : row'[j] = row[j]
        /\ row' \in [Rows -> [token : Drawn', rotated : {"never", "recent", "old"},
                              life : {"absent", "valid", "expired", "ended"}]]
    <3>1. [row[i] EXCEPT !.token = drawn', !.rotated = "recent"]
             \in [token : Drawn', rotated : {"never", "recent", "old"},
                  life : {"absent", "valid", "expired", "ended"}]
      BY <1>1, <2>1 DEF SsInv, SsTypes
    <3>2. row' = [row EXCEPT ![i] = [row[i] EXCEPT !.token = drawn', !.rotated = "recent"]]
      BY <1>1, <1>3 DEF SsInv, SsTypes
    <3>3. /\ [row[i] EXCEPT !.token = drawn', !.rotated = "recent"].token = drawn'
          /\ [row[i] EXCEPT !.token = drawn', !.rotated = "recent"].life = row[i].life
      BY <1>1 DEF SsInv, SsTypes
    <3> QED BY <1>1, <2>1, <3>1, <3>2, <3>3 DEF SsInv, SsTypes
  <2>6. SsTypes'
    <3>1. \A j \in Rows : Stored(j)' => row'[j].token # None
      BY <1>3, <2>1, <2>5 DEF SsInv, SsTypes, Stored
    <3>2. jar' \in [Cookies -> Drawn']
      BY <1>1, <2>1 DEF SsInv, SsTypes
    <3> QED BY <1>1, <2>1, <2>4, <2>5, <3>1, <3>2 DEF SsInv, SsTypes
  <2>7. FactorFollowsSession'
    <3>1. jar["session"] # drawn'
      BY <2>1 DEF SsInv, SsTypes, Cookies
    <3> QED BY <1>1, <2>5, <3>1 DEF SsInv, SsTypes, FactorFollowsSession, SignedOver
  <2>8. SentOK(req[r])' /\ ReplyOK(req[r])'
    <3>1. SetsBoth(req[r])'
      BY <1>1, <2>2, <2>4 DEF SetsBoth
    <3>2. req'[r].sent \in [Cookies -> Drawn']
      BY <1>1, <2>1, <2>4
    <3>3. req[r].kind \notin {"code", "assert", "keylogin"}
      BY <1>1 DEF UserKinds
    <3>4. SentOK(req[r])'
      BY <1>1, <2>4, <3>1, <3>2, <3>3 DEF SentOK
    <3>5. ReplyOK(req[r])'
      BY <2>1, <2>2, <2>4, <3>1 DEF ReplyOK
    <3> QED BY <3>4, <3>5
  <2> QED BY <1>1, <2>1, <2>4, <2>6, <2>7, <2>8, MoveInv
<1> QED BY <1>2, <1>3 DEF Rotate

(* A handler that leaves the rows and the session of the reply as they are, *)
(* or drops the session from it.                                            *)
LEMMA HandledInv ==
  ASSUME SsInv, NEW r \in Requests, req[r].pc = "handle", NEW reply, Answers(r, "reply", reply),
         UNCHANGED <<factor, drawn, jar, passed>>, SsTypes', FactorFollowsSession',
         \/ reply = req[r].reply
         \/ /\ DOMAIN reply \subseteq Cookies /\ \A c \in DOMAIN reply : reply[c] \in Drawn
            /\ "session" \in DOMAIN reply /\ reply["session"] = None
  PROVE  SsInv'
<1>1. /\ \A s \in Requests \ {r} : req'[s] = req[s]
      /\ DOMAIN req'[r] = Fields /\ req'[r].pc = "reply" /\ req'[r].reply = reply
      /\ req'[r].kind = req[r].kind /\ req'[r].sent = req[r].sent /\ Drawn' = Drawn
  BY Became DEF Drawn
<1>2. SentOK(req[r]) /\ ReplyOK(req[r])
  BY DEF SsInv
<1>3. SentOK(req[r])'
  BY <1>1, <1>2 DEF SentOK
<1>4. ReplyOK(req[r])'
  BY <1>1, <1>2 DEF SentOK, ReplyOK, Silent, SetsBoth
<1> QED BY <1>1, <1>3, <1>4, MoveInv

LEMMA DroppedReply ==
  ASSUME SsInv, NEW r \in Requests, NEW cs \in SUBSET Cookies, "session" \in cs
  PROVE  LET reply == Over(Clear(cs), req[r].reply)
         IN  /\ DOMAIN reply \subseteq Cookies /\ \A c \in DOMAIN reply : reply[c] \in Drawn
             /\ "session" \in DOMAIN reply /\ reply["session"] = None
<1>1. DOMAIN req[r].reply \subseteq Cookies /\ \A c \in DOMAIN req[r].reply : req[r].reply[c] \in Drawn
  BY DEF SsInv, ReplyOK
<1>2. DOMAIN Clear(cs) = cs /\ \A c \in cs : Clear(cs)[c] = None
  BY DEF Clear
<1>3. None \in Drawn
  BY DEF Drawn
<1> QED BY <1>1, <1>2, <1>3 DEF Over

LEMMA HandleInv ==
  ASSUME SsInv, NEW r \in Requests, Handle(r)
  PROVE  SsInv'
<1>1. /\ req[r].pc = "handle" /\ UNCHANGED <<factor, drawn, states, jar, passed>>
      /\ DOMAIN req = Requests /\ Drawn' = Drawn
      /\ DOMAIN req[r] = Fields
  BY DEF Handle, SsInv, SsTypes, Drawn, SentOK
<1>2. DOMAIN req' = Requests
  BY <1>1 DEF Handle, Step, Refuse
<1>3. UNCHANGED row => SsTypes' /\ FactorFollowsSession'
  <2>1. deletion' \in {"none", "ahead", "past"}
    BY DEF Handle, SsInv, SsTypes
  <2> QED BY <1>1, <1>2, <2>1 DEF SsInv, SsTypes, FactorFollowsSession, Stored, SignedOver
<1>4. CASE Step(r, "reply") /\ UNCHANGED row
  <2>1. req' = [req EXCEPT ![r].pc = "reply", ![r].reply = req[r].reply]
    <3>1. [req[r] EXCEPT !.pc = "reply"] = [req[r] EXCEPT !.pc = "reply", !.reply = req[r].reply]
      BY <1>1 DEF Fields
    <3> QED BY <1>1, <1>4, <3>1 DEF Step
  <2>2. Answers(r, "reply", req[r].reply)
    BY <2>1 DEF Answers
  <2> QED BY <1>1, <1>3, <1>4, <2>2, HandledInv
<1>5. CASE Refuse(r) /\ UNCHANGED row
  BY <1>1, <1>3, <1>5, RefusedInv
<1>6. CASE /\ row' = [i \in Rows |-> IF i \in Named(req[r].sent["session"]) THEN NoRow ELSE row[i]]
           /\ req' = [req EXCEPT ![r].pc = "reply", ![r].reply = Over(Clear(Cookies), @)]
           /\ UNCHANGED deletion
  <2>1. Answers(r, "reply", Over(Clear(Cookies), req[r].reply))
    BY <1>1, <1>6 DEF Answers
  <2>2. NoRow \in [token : Drawn, rotated : {"never", "recent", "old"},
                   life : {"absent", "valid", "expired", "ended"}] /\ NoRow.life = "absent"
    BY DEF NoRow, Drawn
  <2>3. SsTypes'
    BY <1>1, <1>2, <1>6, <2>2 DEF SsInv, SsTypes, Stored
  <2>4. FactorFollowsSession'
    BY <1>1, <1>6, <2>2 DEF SsInv, SsTypes, FactorFollowsSession, SignedOver
  <2>5. "session" \in Cookies
    BY DEF Cookies
  <2> QED BY <1>1, <2>1, <2>3, <2>4, <2>5, HandledInv, DroppedReply
<1>7. CASE /\ req' = [req EXCEPT ![r].pc = "reply", ![r].reply = Over(Clear({"session"}), @)]
           /\ UNCHANGED row
  <2>1. Answers(r, "reply", Over(Clear({"session"}), req[r].reply))
    BY <1>1, <1>7 DEF Answers
  <2>2. "session" \in {"session"} /\ {"session"} \in SUBSET Cookies
    BY DEF Cookies
  <2> QED BY <1>1, <1>3, <1>7, <2>1, <2>2, HandledInv, DroppedReply
<1> QED BY <1>4, <1>5, <1>6, <1>7 DEF Handle

LEMMA CheckFactorInv ==
  ASSUME SsInv, NEW r \in Requests, CheckFactor(r)
  PROVE  SsInv'
<1> DEFINE token == req[r].sent["session"]
<1>1. /\ req[r].pc = "lookup" /\ req[r].kind \in {"code", "assert"} /\ factor \in {"totp", "passkey"}
      /\ UNCHANGED <<factor, deletion, drawn, states, jar, passed>> /\ Drawn' = Drawn
      /\ DOMAIN req = Requests /\ token \in Drawn /\ token = jar["session"]
  BY DEF CheckFactor, SsInv, SsTypes, SentOK, SignInAlone, SignInKinds, Drawn, Cookies
<1>2. ASSUME req' = [req EXCEPT ![r].pc = "reply", ![r].reply = [c \in {factor} |-> token]],
             UNCHANGED row
      PROVE  SsInv'
  <2>1. Answers(r, "reply", [c \in {factor} |-> token])
    BY <1>2 DEF Answers
  <2>2. /\ \A s \in Requests \ {r} : req'[s] = req[s]
        /\ DOMAIN req' = Requests /\ DOMAIN req'[r] = Fields
        /\ req'[r].pc = "reply" /\ req'[r].reply = [c \in {factor} |-> token]
        /\ req'[r].kind = req[r].kind /\ req'[r].sent = req[r].sent
    BY <2>1, Became
  <2>3. SsTypes' /\ FactorFollowsSession'
    BY <1>1, <1>2, <2>2, SameRows
  <2>4. SentOK(req[r])'
    BY <1>1, <2>2 DEF SentOK, SsInv
  <2>5. /\ DOMAIN req'[r].reply = {factor} /\ req'[r].reply[factor] = token
        /\ "session" \notin {factor} /\ {factor} \subseteq Cookies
    BY <1>1, <2>2 DEF Cookies
  <2>6. ReplyOK(req[r])'
    <3>1. SignsIn(req[r])'
      BY <1>1, <2>2, <2>5 DEF SignsIn, SignInKinds
    <3> QED BY <1>1, <2>5, <3>1 DEF ReplyOK
  <2> QED BY <1>1, <2>2, <2>3, <2>4, <2>6, MoveInv
<1>3. ASSUME Refuse(r),
             row' = [i \in Rows |-> IF /\ req[r].kind = "code" /\ i \in Named(token)
                                       /\ row[i].life = "expired"
                                    THEN [row[i] EXCEPT !.life = "ended"] ELSE row[i]]
      PROVE  SsInv'
  <2>1. DOMAIN req' = Requests
    BY <1>1, <1>3 DEF Refuse
  <2>2. /\ row' \in [Rows -> [token : Drawn, rotated : {"never", "recent", "old"},
                             life : {"absent", "valid", "expired", "ended"}]]
        /\ \A j \in Rows : row'[j] = row[j] \/ row'[j].life = "ended"
    BY <1>3 DEF SsInv, SsTypes
  <2>3. \A j \in Rows : \/ row'[j].life \in {"absent", "ended"}
                        \/ /\ row'[j].token = row[j].token
                           /\ row[j].life \in {"valid", "expired"}
                           /\ row'[j].life = "valid" => row[j].life = "valid"
    BY <2>2 DEF SsInv, SsTypes
  <2>4. SsTypes' /\ FactorFollowsSession'
    BY <1>1, <2>1, <2>2, <2>3, SameTokens DEF SsInv, SsTypes
  <2> QED BY <1>1, <1>3, <2>4, RefusedInv
<1> QED BY <1>2, <1>3 DEF CheckFactor

LEMMA NewRowInv ==
  ASSUME SsInv, NEW r \in Requests, NEW cookies, NewRow(r, cookies), req[r].pc = "lookup",
         \/ cookies = {"session"} /\ req[r].kind = "callback"
         \/ cookies = {"session", "passkey"} /\ req[r].kind = "keylogin",
         UNCHANGED <<factor, deletion, jar, passed>>, states' \in {0, 1}
  PROVE  SsInv'
<1>1. /\ drawn' \in 0 .. MaxTokens /\ drawn' \in Drawn' /\ Drawn \subseteq Drawn'
      /\ drawn' \notin Drawn /\ drawn' # None /\ drawn' = drawn + 1
  BY DrawnGrows DEF NewRow
<1>2. PICK i \in Rows :
        /\ row[i].life = "absent" /\ i \notin passed
        /\ row' = [row EXCEPT ![i] = [token |-> drawn', rotated |-> "never", life |-> "valid"]]
        /\ req' = [req EXCEPT ![r].pc = "reply", ![r].reply = [c \in cookies |-> drawn']]
  BY <1>1 DEF NewRow
<1>3. Answers(r, "reply", [c \in cookies |-> drawn'])
  BY <1>2 DEF Answers
<1>4. /\ \A s \in Requests \ {r} : req'[s] = req[s]
      /\ DOMAIN req' = Requests /\ DOMAIN req'[r] = Fields
      /\ req'[r].pc = "reply" /\ req'[r].reply = [c \in cookies |-> drawn']
      /\ req'[r].kind = req[r].kind /\ req'[r].sent = req[r].sent
  BY <1>3, Became
<1>5. /\ DOMAIN row' = Rows /\ row'[i] = [token |-> drawn', rotated |-> "never", life |-> "valid"]
      /\ \A j \in Rows \ {i} : row'[j] = row[j]
  BY <1>2 DEF SsInv, SsTypes
<1>6. SsTypes'
  <2>1. row' \in [Rows -> [token : Drawn', rotated : {"never", "recent", "old"},
                           life : {"absent", "valid", "expired", "ended"}]]
    BY <1>1, <1>2 DEF SsInv, SsTypes
  <2>2. \A j \in Rows : Stored(j)' => row'[j].token # None
    BY <1>1, <1>5 DEF SsInv, SsTypes, Stored
  <2>3. jar' \in [Cookies -> Drawn']
    BY <1>1 DEF SsInv, SsTypes
  <2> QED BY <1>1, <1>4, <2>1, <2>2, <2>3 DEF SsInv, SsTypes
<1>7. FactorFollowsSession'
  BY <1>2, <1>5 DEF SsInv, SsTypes, FactorFollowsSession, SignedOver
<1>8. SentOK(req[r])'
  BY <1>1, <1>4 DEF SsInv, SentOK
<1>9. /\ DOMAIN req'[r].reply = cookies /\ "session" \in cookies
      /\ \A c \in cookies : req'[r].reply[c] = drawn'
      /\ cookies \subseteq Cookies /\ \A j \in passed : row'[j].token # drawn'
  BY <1>1, <1>2, <1>4, <1>5 DEF Cookies, SsInv, SsTypes
<1>10. CASE cookies = {"session"} /\ req[r].kind = "callback"
  <2>1. factor \in Cookies => factor \notin cookies
    BY <1>10 DEF SsInv, SsTypes, Factors
  <2>2. SetsBoth(req[r])' \/ SignsIn(req[r])'
    BY <1>4, <1>9, <1>10, <2>1 DEF SetsBoth, SignsIn, SignInKinds, SsInv, SsTypes, Factors, Cookies
  <2>3. ReplyOK(req[r])'
    BY <1>1, <1>9, <2>2 DEF ReplyOK
  <2> QED BY <1>1, <1>4, <1>6, <1>7, <1>8, <2>3, MoveInv
<1>11. CASE cookies = {"session", "passkey"} /\ req[r].kind = "keylogin"
  <2>1. factor = "passkey"
    BY <1>11 DEF SsInv, SentOK
  <2>2. SetsBoth(req[r])'
    BY <1>9, <1>11, <2>1 DEF SetsBoth
  <2>3. ReplyOK(req[r])'
    BY <1>1, <1>9, <2>2 DEF ReplyOK
  <2> QED BY <1>1, <1>4, <1>6, <1>7, <1>8, <2>3, MoveInv
<1> QED BY <1>10, <1>11

LEMMA SignUpInv ==
  ASSUME SsInv, NEW r \in Requests, Callback(r) \/ KeyLogin(r)
  PROVE  SsInv'
<1>1. /\ req[r].pc = "lookup" /\ DOMAIN req = Requests
      /\ UNCHANGED <<factor, deletion, jar, passed>> /\ states' \in {0, 1}
  BY DEF Callback, KeyLogin, SsInv, SsTypes
<1>2. CASE Refuse(r) /\ UNCHANGED <<row, drawn>>
  <2>1. DOMAIN req' = Requests /\ Drawn' = Drawn
    BY <1>1, <1>2 DEF Refuse, Drawn
  <2>2. SsTypes' /\ FactorFollowsSession'
    BY <1>1, <1>2, <2>1 DEF SsInv, SsTypes, FactorFollowsSession, Stored, SignedOver
  <2> QED BY <1>1, <1>2, <2>1, <2>2, RefusedInv
<1>3. CASE req[r].kind = "callback" /\ NewRow(r, {"session"})
  BY <1>1, <1>3, NewRowInv
<1>4. CASE req[r].kind = "keylogin" /\ NewRow(r, {"session", "passkey"})
  BY <1>1, <1>4, NewRowInv
<1> QED BY <1>2, <1>3, <1>4 DEF Callback, KeyLogin

LEMMA ReceiveInv ==
  ASSUME SsInv, NEW r \in Requests, Receive(r)
  PROVE  SsInv'
<1> DEFINE reply == req[r].reply
<1>1. /\ req[r].pc = "reply" /\ jar' = Over(reply, jar) /\ req' = [req EXCEPT ![r] = NoRequest]
      /\ passed' = passed \cup UNION {Named(reply[f]) : f \in DOMAIN reply \cap {factor}}
      /\ UNCHANGED <<factor, deletion, row, drawn, states>> /\ Drawn' = Drawn
      /\ SsTypes /\ ReplyOK(req[r]) /\ DOMAIN req = Requests
  BY DEF Receive, SsInv, SsTypes, Drawn
<1>2. /\ DOMAIN reply \subseteq Cookies /\ DOMAIN jar = Cookies
      /\ \A c \in DOMAIN reply : reply[c] \in Drawn
  BY <1>1 DEF ReplyOK, SsTypes
<1>3. /\ DOMAIN jar' = Cookies
      /\ \A c \in Cookies : jar'[c] = IF c \in DOMAIN reply THEN reply[c] ELSE jar[c]
  BY <1>1, <1>2 DEF Over
<1>4. jar' \in [Cookies -> Drawn]
  <2>1. jar' = [c \in Cookies |-> jar'[c]]
    BY <1>1, <1>2 DEF Over
  <2>2. \A c \in Cookies : jar'[c] \in Drawn
    BY <1>1, <1>2, <1>3 DEF SsTypes
  <2> QED BY <2>1, <2>2
<1>5. passed' \subseteq Rows
  BY <1>1 DEF SsTypes, Named
<1>6. /\ DOMAIN req' = Requests /\ req'[r] = NoRequest
      /\ \A s \in Requests \ {r} : req'[s] = req[s]
  BY <1>1
<1>7. SsTypes'
  BY <1>1, <1>4, <1>5, <1>6 DEF SsTypes, Stored
<1>8. \A s \in Requests \ {r} : req[s].pc # "idle" => req[s].kind \notin SignInKinds
  BY <1>1 DEF SsInv, SignInAlone
<1>9. SignInAlone'
  BY <1>6, <1>8, IdleOK DEF SignInAlone
<1>10. ASSUME NEW i \in passed', row[i].life = "valid", row[i].token = jar'["session"], factor \in Cookies
       PROVE  jar'[factor] = jar'["session"]
  <2>1. row[i].token # None /\ "session" \in Cookies /\ i \in Rows
    BY <1>5, <1>7, <1>10, <1>1 DEF SsTypes, Stored, Cookies
  <2>2. CASE Silent(req[r])
    <3>1. i \in passed
      BY <1>1, <1>10, <2>2 DEF Silent
    <3>2. jar'["session"] = jar["session"] /\ jar'[factor] = jar[factor]
      BY <1>3, <1>10, <2>1, <2>2 DEF Silent
    <3> QED BY <1>10, <3>1, <3>2 DEF SsInv, FactorFollowsSession, SignedOver
  <2>3. CASE SetsBoth(req[r])
    BY <1>3, <1>10, <2>1, <2>3 DEF SetsBoth
  <2>4. CASE SignsIn(req[r])
    <3>1. CASE "session" \in DOMAIN reply /\ factor \notin DOMAIN reply
      <4>1. i \in passed
        BY <1>1, <1>10, <3>1
      <4> QED BY <1>3, <1>10, <2>1, <2>4, <3>1, <4>1 DEF SignsIn
    <3>2. CASE "session" \notin DOMAIN reply /\ factor \in DOMAIN reply
      BY <1>3, <1>10, <2>1, <2>4, <3>2 DEF SignsIn
    <3> QED BY <2>4, <3>1, <3>2 DEF SignsIn
  <2> QED BY <1>1, <2>2, <2>3, <2>4 DEF ReplyOK
<1>11. FactorFollowsSession'
  BY <1>1, <1>10 DEF FactorFollowsSession, SignedOver
<1>12. ASSUME NEW s \in Requests PROVE SentOK(req[s])' /\ ReplyOK(req[s])'
  <2>1. CASE s = r
    BY <1>1, <1>6, <2>1, IdleOK DEF SentOK, ReplyOK, Silent, NoRequest
  <2>2. CASE s # r
    <3>1. SentOK(req[s]) /\ ReplyOK(req[s]) /\ req'[s] = req[s] /\ ~SignsIn(req[s])
      BY <1>6, <1>8, <2>2 DEF SsInv, SignsIn
    <3> QED BY <1>1, <3>1 DEF SentOK, ReplyOK, Silent, SetsBoth, SignedOver
  <2> QED BY <2>1, <2>2
<1> QED BY <1>7, <1>9, <1>11, <1>12 DEF SsInv

(* Time only ages and ends rows, or takes the factor cookie.                *)
LEMMA AgedInv ==
  ASSUME SsInv, NEW i \in Rows, WeekPasses(i) \/ Expire(i)
  PROVE  SsInv'
<1>1. /\ UNCHANGED <<factor, deletion, drawn, states, jar, req, passed>> /\ Drawn' = Drawn
      /\ SsTypes
  BY DEF WeekPasses, Expire, SsInv, Drawn
<1>2. /\ row' \in [Rows -> [token : Drawn, rotated : {"never", "recent", "old"},
                           life : {"absent", "valid", "expired", "ended"}]]
      /\ \A j \in Rows : /\ row'[j].token = row[j].token
                         /\ row'[j].life = "valid" => row[j].life = "valid"
                         /\ row'[j].life \in {"valid", "expired"} => row[j].life \in {"valid", "expired"}
  BY <1>1 DEF WeekPasses, Expire, SsTypes
<1>3. SsTypes' /\ FactorFollowsSession'
  <2>1. \A j \in Rows : \/ row'[j].life \in {"absent", "ended"}
                        \/ /\ row'[j].token = row[j].token
                           /\ row[j].life \in {"valid", "expired"}
                           /\ row'[j].life = "valid" => row[j].life = "valid"
    BY <1>2
  <2> QED BY <1>1, <1>2, <2>1, SameTokens DEF SsTypes
<1>4. \A r \in Requests : SentOK(req[r])' /\ ReplyOK(req[r])'
  <2>1. passed \subseteq Rows
    BY <1>1 DEF SsTypes
  <2> QED BY <1>1, <1>2, <2>1 DEF SsInv, SentOK, ReplyOK, Silent, SetsBoth, SignsIn, SignedOver
<1> QED BY <1>1, <1>3, <1>4 DEF SsInv, SignInAlone

LEMMA SsStepInv == SsInv /\ [SsNext]_ssVars => SsInv'
<1> SUFFICES ASSUME SsInv, [SsNext]_ssVars PROVE SsInv'
  OBVIOUS
<1>1. CASE UNCHANGED <<factor, row, drawn, jar, req, passed>> /\ states' \in {0, 1}
           /\ deletion' \in {"none", "ahead", "past"}
  BY <1>1 DEF SsInv, SsTypes, Drawn, Stored, FactorFollowsSession, SignedOver, SignInAlone,
              SentOK, ReplyOK, Silent, SetsBoth, SignsIn
<1>2. CASE DayPasses
  <2>1. /\ factor \in Cookies /\ jar' = [jar EXCEPT ![factor] = None] /\ passed' = {}
        /\ UNCHANGED <<factor, deletion, row, drawn, states, req>> /\ Drawn' = Drawn
        /\ None \in Drawn /\ SsTypes /\ \A r \in Requests : req[r].pc = "idle"
    BY <1>2 DEF DayPasses, SsInv, SsTypes, Factors, Cookies, Drawn
  <2>2. SsTypes'
    BY <2>1 DEF SsTypes, Stored
  <2>3. \A r \in Requests : SentOK(req[r])' /\ ReplyOK(req[r])'
    BY <2>1 DEF SsInv, SentOK, ReplyOK, Silent, SetsBoth, SignsIn, SignedOver
  <2> QED BY <2>1, <2>2, <2>3 DEF SsInv, SignInAlone, FactorFollowsSession
<1>3. CASE StartSignIn \/ DeletionDue \/ UNCHANGED ssVars
  BY <1>1, <1>3 DEF StartSignIn, DeletionDue, ssVars, SsInv, SsTypes
<1> QED BY <1>2, <1>3, SendInv, AuthenticateInv, RotateInv, HandleInv, CheckFactorInv,
           SignUpInv, ReceiveInv, AgedInv DEF SsNext

(* The sessions always have their type.                                     *)
THEOREM SsTypeCorrect == SsSpec => []SsTypeOK
<1>1. SsInv => SsTypeOK
  <2>1. drawn \in 0 .. MaxTokens => Drawn \subseteq Tokens \cup {None}
    BY SessionsAssumption DEF Drawn, Tokens
  <2> QED BY <2>1 DEF SsInv, SsTypes, SsTypeOK
<1> QED BY <1>1, SsInitInv, SsStepInv, PTL DEF SsSpec

(* A browser that has passed the second factor in a session is not asked    *)
(* for it again within the cookie's day (get_current_user, auth_deps.py),   *)
(* for any number of requests under way, tokens and sign-ins.               *)
THEOREM FactorFollows == SsSpec => []FactorFollowsSession
<1>1. SsInv => FactorFollowsSession
  BY DEF SsInv
<1> QED BY <1>1, SsInitInv, SsStepInv, PTL DEF SsSpec

-----------------------------------------------------------------------------
(* The four parts together, as they are checked: a step of one leaves the   *)
(* others alone.                                                            *)
LEMMA PartsInit == RequestsInit => SsInv /\ RlInv /\ AcInv /\ FcInv
BY SsInitInv, RlInitInv, AcInitInv, FcInitInv DEF RequestsInit

LEMMA PartsStep ==
  SsInv /\ RlInv /\ AcInv /\ FcInv /\ [RequestsNext]_reqVars => (SsInv /\ RlInv /\ AcInv /\ FcInv)'
<1>1. [RequestsNext]_reqVars =>
        [SsNext]_ssVars /\ [RlNext]_rlVars /\ [AcNext]_acVars /\ [FcNext]_fcVars
  BY DEF RequestsNext, reqVars
<1> QED BY <1>1, SsStepInv, RlStepInv, AcStepInv, FcStepInv

(* All that is checked of the requests holds of the parts together.         *)
THEOREM RequestsCorrect ==
  RequestsSpec => [](RequestsTypeOK /\ FactorFollowsSession /\ WindowBound
                     /\ InvitationsSpent /\ SecretConfirmed)
<1>1. SsInv => SsTypeOK /\ FactorFollowsSession
  <2>1. drawn \in 0 .. MaxTokens => Drawn \subseteq Tokens \cup {None}
    BY SessionsAssumption DEF Drawn, Tokens
  <2> QED BY <2>1 DEF SsInv, SsTypes, SsTypeOK
<1>2. RlInv => RlTypeOK /\ WindowBound
  BY DEF RlInv
<1>3. AcInv => AcTypeOK /\ InvitationsSpent
  BY DEF AcInv, AcTypes, AcTypeOK, Statuses
<1>4. FcInv => FcTypeOK /\ SecretConfirmed
  BY DEF FcInv, FcTypeOK, Columns, SecretConfirmed
<1> QED BY <1>1, <1>2, <1>3, <1>4, PartsInit, PartsStep, PTL DEF RequestsSpec, RequestsTypeOK
=============================================================================
