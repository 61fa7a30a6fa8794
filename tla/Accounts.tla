------------------------------ MODULE Accounts ------------------------------
(***************************************************************************)
(* Users, invitations and connected Gmail accounts (api/auth.py,           *)
(* api/onboarding.py, api/settings.py, api/admin.py).  A handler that      *)
(* reads, decides and then commits does so in two steps; the reads of one  *)
(* handler are taken together.  A commit that breaks a constraint of the   *)
(* database leaves everything as it was.                                   *)
(***************************************************************************)
EXTENDS Naturals, FiniteSets

CONSTANTS
  People,     \* e-mail addresses, each at most one user (users.email is unique)
  Invites,    \* invitation rows that may be made
  Calls,      \* handlers under way
  MaxGmail,   \* bound: Gmail accounts of a user
  Nobody, NoInvite

ASSUME AccountsAssumption ==
  MaxGmail \in Nat \ {0} /\ Nobody \notin People /\ NoInvite \notin Invites

VARIABLES
  user,       \* the users row, its profile row and its Gmail accounts
  invite,     \* the invitations
  call,       \* handlers between their reads and their commit
  joined      \* who has become a user, and with which invitation (history)

acVars == <<user, invite, call, joined>>

NoUser == [role |-> "none", profile |-> FALSE, gmail |-> 0]
NoInvitation == [email |-> Nobody, by |-> Nobody, status |-> "absent"]
NoCall == [kind |-> "none", email |-> Nobody, as |-> "none", invite |-> NoInvite]

AcInit ==
  /\ user = [p \in People |-> NoUser]
  /\ invite = [i \in Invites |-> NoInvitation]
  /\ call = [c \in Calls |-> NoCall]
  /\ joined = {}

Exists(p) == user[p].role # "none"
With(role) == {p \in People : user[p].role = role}
Pending(p) == {i \in Invites : invite[i].email = p /\ invite[i].status = "pending"}
Idle(c) == call[c] = NoCall
Await(c, kind, p, as, i) ==
  call' = [call EXCEPT ![c] = [kind |-> kind, email |-> p, as |-> as, invite |-> i]]
Done(c) == call' = [call EXCEPT ![c] = NoCall]

(***************************************************************************)
(* google_callback: _get_or_create_user, then the Gmail account.           *)
(***************************************************************************)
\* A known user goes on to the account.  Of the others the first becomes the
\* owner, as does anybody while there is none; with an owner a single pending
\* invitation is needed.  Two owners or two invitations raise, as does a
\* missing one.
SignIn(c, p) ==
  /\ Idle(c)
  /\ \/ Exists(p) /\ Await(c, "account", p, "none", NoInvite)
     \/ ~Exists(p) /\ With("owner") = {} /\ Await(c, "join", p, "owner", NoInvite)
     \/ /\ ~Exists(p) /\ Cardinality(With("owner")) = 1
        /\ \E i \in Pending(p) : Pending(p) = {i} /\ Await(c, "join", p, "member", i)
  /\ UNCHANGED <<user, invite, joined>>

NewUser(role) == [role |-> role, profile |-> TRUE, gmail |-> 1]
NotMarked(i) == invite
Marked(i) == [j \in Invites |-> IF j = i THEN [invite[j] EXCEPT !.status = "accepted"] ELSE invite[j]]

\* The user, the profile, the settings, the account and the invitation's
\* "accepted" are one transaction; it fails when the address is taken or the
\* invitation gone.
Join(c) ==
  LET p == call[c].email  i == call[c].invite
      fails == Exists(p) \/ (i \in Invites /\ invite[i].status = "gone") IN
  /\ call[c].kind = "join"
  /\ \/ /\ fails
        /\ Done(c) /\ UNCHANGED <<user, invite, joined>>
     \/ /\ ~fails
        /\ user' = [user EXCEPT ![p] = NewUser(call[c].as)]
        /\ invite' = Marked(i)
        /\ joined' = joined \cup {<<p, i>>}
        /\ Await(c, "account", p, "none", NoInvite)

\* The account is made if there is none and connected if there is one; two of
\* them raise, and a user deleted meanwhile breaks the foreign key (Delete).
Account(c) ==
  LET p == call[c].email IN
  /\ call[c].kind = "account"
  /\ user' = [user EXCEPT ![p].gmail = IF @ = 0 THEN 1 ELSE @]
  /\ Done(c) /\ UNCHANGED <<invite, joined>>

(***************************************************************************)
(* start_onboarding asks for no invitation; the first user is the owner.   *)
(***************************************************************************)
Onboard(c, p) ==
  /\ Idle(c)
  /\ Await(c, "onboard", p, IF \E q \in People : Exists(q) THEN "member" ELSE "owner", NoInvite)
  /\ UNCHANGED <<user, invite, joined>>
OnboardCommit(c) ==
  LET p == call[c].email IN
  /\ call[c].kind = "onboard"
  /\ user' = IF Exists(p) THEN user ELSE [user EXCEPT ![p] = NewUser(call[c].as)]
  /\ joined' = joined \cup (IF Exists(p) THEN {} ELSE {<<p, NoInvite>>})
  /\ Done(c) /\ UNCHANGED invite

(***************************************************************************)
(* Invitations: a second pending one is refused when it is made, and only  *)
(* a pending one can be revoked; both are checked before the write.        *)
(***************************************************************************)
Invite(c, o, p) ==
  /\ Idle(c) /\ o \in With("owner") /\ Pending(p) = {}
  /\ Await(c, "invite", p, o, NoInvite)
  /\ UNCHANGED <<user, invite, joined>>
InviteCommit(c) ==
  /\ call[c].kind = "invite"
  /\ \/ /\ Exists(call[c].as)
        /\ \E i \in Invites :
             /\ invite[i].status = "absent"
             /\ invite' = [invite EXCEPT ![i] = [email |-> call[c].email, by |-> call[c].as,
                                                status |-> "pending"]]
     \/ /\ ~Exists(call[c].as) \/ \A i \in Invites : invite[i].status # "absent"
        /\ UNCHANGED invite
  /\ Done(c) /\ UNCHANGED <<user, joined>>
Revoke(c, i) ==
  /\ Idle(c) /\ With("owner") # {} /\ invite[i].status = "pending"
  /\ Await(c, "revoke", invite[i].email, "none", i)
  /\ UNCHANGED <<user, invite, joined>>
RevokeCommit(c) ==
  /\ call[c].kind = "revoke"
  /\ invite' = [invite EXCEPT ![call[c].invite].status = IF @ = "gone" THEN @ ELSE "revoked"]
  /\ Done(c) /\ UNCHANGED <<user, joined>>

(***************************************************************************)
(* Connected accounts from the settings page.                              *)
(***************************************************************************)
ConnectAnother(p) ==
  /\ Exists(p) /\ user[p].gmail < MaxGmail
  /\ user' = [user EXCEPT ![p].gmail = @ + 1]
  /\ UNCHANGED <<invite, call, joined>>
Disconnect(p) ==
  /\ Exists(p) /\ user[p].gmail > 0
  /\ user' = [user EXCEPT ![p].gmail = @ - 1]
  /\ UNCHANGED <<invite, call, joined>>

(***************************************************************************)
(* Deletion; Sessions has the schedule that comes before it.               *)
(* _delete_user_data is one transaction; the invitations the user made go  *)
(* with the row, and a callback on the row fails.  The owner's reset       *)
(* deletes the profile and the accounts and keeps the user.                *)
(***************************************************************************)
Delete(p) ==
  /\ Exists(p)
  /\ user' = [user EXCEPT ![p] = NoUser]
  /\ invite' = [i \in Invites |-> IF invite[i].by = p THEN [NoInvitation EXCEPT !.status = "gone"]
                                   ELSE invite[i]]
  /\ call' = [c \in Calls |-> IF call[c].kind = "account" /\ call[c].email = p
                              THEN NoCall ELSE call[c]]
  /\ UNCHANGED joined
Reset(p) ==
  /\ p \in With("owner")
  /\ user' = [user EXCEPT ![p].profile = FALSE, ![p].gmail = 0]
  /\ UNCHANGED <<invite, call, joined>>

AcNext ==
  \/ \E c \in Calls :
       \/ \E p \in People : SignIn(c, p) \/ Onboard(c, p) \/ \E o \in People : Invite(c, o, p)
       \/ \E i \in Invites : Revoke(c, i)
       \/ Join(c) \/ Account(c) \/ OnboardCommit(c) \/ InviteCommit(c) \/ RevokeCommit(c)
  \/ \E p \in People : ConnectAnother(p) \/ Disconnect(p) \/ Delete(p) \/ Reset(p)

AcSpec == AcInit /\ [][AcNext]_acVars

AcTypeOK ==
  /\ \A p \in People : /\ user[p].role \in {"none", "owner", "member"}
                       /\ user[p].gmail \in 0 .. MaxGmail
  /\ \A i \in Invites : invite[i].status \in {"absent", "pending", "accepted", "revoked", "gone"}
  /\ joined \subseteq People \X (Invites \cup {NoInvite})

(***************************************************************************)
(* An invitation is accepted only by the user row it let in, and the one   *)
(* that let a user in is spent: the mark and the user are one transaction, *)
(* which another sign-up, an onboarding, a revocation or a deletion may    *)
(* cut short or overtake (auth.py:130-167).                                *)
(***************************************************************************)
InvitationsSpent ==
  /\ \A i \in Invites : invite[i].status = "accepted" => <<invite[i].email, i>> \in joined
  /\ \A j \in joined : j[2] \in Invites =>
       /\ invite[j[2]].status \notin {"absent", "pending"}
       /\ invite[j[2]].email \in {j[1], Nobody}

(***************************************************************************)
(* A user has a profile: /account/me and the profile page read it with     *)
(* scalar_one.  The owner's reset deletes it (admin.py:251), nothing       *)
(* makes it again, and the message says the application may be reloaded.   *)
(***************************************************************************)
ProfileKept == \A p \in People : Exists(p) => user[p].profile

(***************************************************************************)
(* At most one owner, which _get_or_create_user reads with                 *)
(* scalar_one_or_none: two first sign-ups at once make two.                *)
(***************************************************************************)
AtMostOneOwnerUser == Cardinality(With("owner")) <= 1
=============================================================================
