------------------------------ MODULE Factors ------------------------------
(***************************************************************************)
(* The second factors of one user (api/settings.py 2FA and passkey         *)
(* endpoints, api/auth.py passkey registration and removal).  A handler    *)
(* loads the users row, and its commit writes only the columns it changed  *)
(* from what it loaded: two handlers of one user overlap in columns.       *)
(***************************************************************************)
EXTENDS Naturals, FiniteSets, TLC

CONSTANTS
  Secrets,    \* TOTP secrets
  Keys,       \* WebAuthn credentials
  Handlers,   \* handlers under way
  NoSecret

VARIABLES
  account,    \* totp_enabled, totp_secret, totp_secret_pending, passkeys_enabled
  keys,       \* the webauthn_credentials rows
  handler,    \* handlers between their reads and their commit
  confirmed   \* secrets a code was verified for (history)

fcVars == <<account, keys, handler, confirmed>>

NoHandler == [kind |-> "none", set |-> <<>>, key |-> "none"]

FcInit ==
  /\ account = [enabled |-> FALSE, secret |-> NoSecret, pending |-> NoSecret, passkeys |-> FALSE]
  /\ keys = {}
  /\ handler = [h \in Handlers |-> NoHandler]
  /\ confirmed = {}

\* What the session will flush: the assignments that change a loaded column.
Changes(set) == [c \in {d \in DOMAIN set : set[d] # account[d]} |-> set[c]]
Load(h, kind, set, key) ==
  /\ handler[h] = NoHandler
  /\ handler' = [handler EXCEPT ![h] = [kind |-> kind, set |-> Changes(set), key |-> key]]
  /\ UNCHANGED <<account, keys>>

\* setup_2fa draws a secret, and a later setup another.
Setup(h) ==
  /\ \E s \in Secrets : Load(h, "setup", [pending |-> s], "none")
  /\ UNCHANGED confirmed
\* verify_2fa: the code fits the pending secret that was loaded, which becomes
\* the secret.
Verified(pending) == [secret |-> pending, pending |-> NoSecret, enabled |-> TRUE]
Verify(h) ==
  /\ account.pending # NoSecret
  /\ Load(h, "verify", Verified(account.pending), "none")
  /\ confirmed' = confirmed \cup {account.pending}
Disable(h) ==
  /\ Load(h, "disable", [enabled |-> FALSE, secret |-> NoSecret, pending |-> NoSecret], "none")
  /\ UNCHANGED confirmed
\* passkey_register_complete: a credential registered twice is refused.
Register(h) ==
  /\ \E k \in Keys \ keys : Load(h, "register", [passkeys |-> TRUE], k)
  /\ UNCHANGED confirmed
\* delete_passkey_credential counts the rows that its own deletion leaves.
RemoveKey(h) ==
  /\ \E k \in keys : Load(h, "remove", IF keys = {k} THEN [passkeys |-> FALSE] ELSE <<>>, k)
  /\ UNCHANGED confirmed
DisablePasskeys(h) == Load(h, "drop", [passkeys |-> FALSE], "none") /\ UNCHANGED confirmed

OnlyWritten(h) == handler[h].set
FromTheRow(h) ==
  IF handler[h].kind = "verify" THEN Verified(account.pending) @@ account
  ELSE handler[h].set @@ account
Written(h) ==
  [c \in DOMAIN account |-> IF c \in DOMAIN handler[h].set THEN handler[h].set[c] ELSE account[c]]
Flush(h) ==
  /\ handler[h] # NoHandler
  /\ LET k == handler[h].key IN
     CASE handler[h].kind = "register" -> keys' = keys \cup {k}
       [] handler[h].kind = "remove" -> keys' = keys \ {k}
       [] handler[h].kind = "drop" -> keys' = {}
       [] OTHER -> UNCHANGED keys
  /\ account' = Written(h)
  /\ handler' = [handler EXCEPT ![h] = NoHandler]
  /\ UNCHANGED confirmed

FcNext ==
  \E h \in Handlers : \/ Setup(h) \/ Verify(h) \/ Disable(h)
                      \/ Register(h) \/ RemoveKey(h) \/ DisablePasskeys(h) \/ Flush(h)
FcSpec == FcInit /\ [][FcNext]_fcVars

FcTypeOK ==
  /\ DOMAIN account = {"enabled", "secret", "pending", "passkeys"}
  /\ account.secret \in Secrets \cup {NoSecret}
  /\ keys \subseteq Keys /\ confirmed \subseteq Secrets

(***************************************************************************)
(* The secret a sign-in is checked against is one the user has entered a   *)
(* code for, though a second setup may replace the pending secret while    *)
(* the code is verified (settings.py:653-663).                             *)
(***************************************************************************)
SecretConfirmed == account.secret \in confirmed \cup {NoSecret}

(***************************************************************************)
(* With the passkey factor on there is a passkey to pass it with: broken   *)
(* when the last two are removed at once (auth.py:907-927).                *)
(***************************************************************************)
FactorUsable == account.passkeys => keys # {}
=============================================================================
