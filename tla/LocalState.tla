----------------------------- MODULE LocalState -----------------------------
(***************************************************************************)
(* The three pieces of local state that every control call reads (the      *)
(* settings file, the operating system keyring and the control-trust file) *)
(* and the commands that change them: setup, login, logout of              *)
(* management.py, enable-control and disable-control of control.py.        *)
(*                                                                         *)
(* Every command is a process of its own and no lock is taken anywhere, so *)
(* a command is a sequence of steps, one per file or keyring access, and   *)
(* the steps of several commands interleave freely.                        *)
(***************************************************************************)
EXTENDS Naturals

CONSTANTS
  Origins,     \* normalized Home Assistant origins (scheme, host, port)
  Modes,       \* transport modes: "https", "trusted_local_or_vpn"
  Tokens,      \* long-lived access tokens; a token stands for its sha256 too
  Issuer,      \* the origin at which the owner created each token
  Admins,      \* the owner's concurrently running management commands
  TrustFaults, \* can a write of the trust file fail?
  None         \* "absent": no settings, no token, trust not enabled

ASSUME LocalAssumption ==
  /\ Issuer \in [Tokens -> Origins]
  /\ TrustFaults \in BOOLEAN
  /\ None \notin Tokens
  /\ None \notin [origin : Origins, mode : Modes]
  /\ None \notin [origin : Origins, mode : Modes, token : Tokens]

Endpoint == [origin : Origins, mode : Modes]

\* What enable-control writes down: the connection the owner consented to.
Bindings == [origin : Origins, mode : Modes, token : Tokens]

Binding(endpoint, token) ==
  [origin |-> endpoint.origin, mode |-> endpoint.mode, token |-> token]

VARIABLES
  settings,  \* settings.json
  keyring,   \* keyring entry per origin (credential_key)
  trust,     \* control-trust.json: the enabled binding, or None
  admin,     \* where each command is, and what it has read so far
  revoked    \* history: a change that promises "control is disabled" was
             \* reported as done, and trust was not granted since

localVars == <<settings, keyring, trust, admin, revoked>>
files     == <<settings, keyring, trust, revoked>>

-----------------------------------------------------------------------------
AtRest == [step |-> "idle", endpoint |-> None, token |-> None]

\* The steps a command can be at, each named for the access it makes next.
Steps == {"idle", "invalidate", "store", "delete",
          "recheck", "keyring", "grant"}

LocalTypeOK ==
  /\ settings \in Endpoint \cup {None}
  /\ keyring  \in [Origins -> Tokens \cup {None}]
  /\ trust    \in Bindings \cup {None}
  /\ admin    \in [Admins -> [step : Steps,
                              endpoint : Endpoint \cup {None},
                              token : Tokens \cup {None}]]
  /\ revoked  \in BOOLEAN

\* Whatever earlier commands left behind, a fresh installation included
\* (TrustStore._read takes an absent file as disabled).
LocalInit ==
  /\ settings \in Endpoint \cup {None}
  /\ keyring  \in {k \in [Origins -> Tokens \cup {None}] :
                     \A o \in Origins : k[o] # None => Issuer[k[o]] = o}
  /\ trust    \in {None} \cup {b \in Bindings : Issuer[b.token] = b.origin}
  /\ admin    = [a \in Admins |-> AtRest]
  /\ revoked  = FALSE

Continue(a, step)  == admin' = [admin EXCEPT ![a].step = step]
Leave(a)       == admin' = [admin EXCEPT ![a] = AtRest]

-----------------------------------------------------------------------------
(* setup: settings first, then the trust file.                             *)

SaveSettings(a) ==
  /\ admin[a].step = "idle"
  /\ settings' \in Endpoint
  /\ Continue(a, "invalidate")
  /\ UNCHANGED <<keyring, trust, revoked>>

\* Mutant: a lifecycle command that finds its connection unchanged keeps the
\* trust it finds.
InvalidateIfChanged(a) ==
  /\ admin[a].step = "invalidate"
  /\ trust' = IF trust # None /\ settings # None /\ trust.origin = settings.origin
                THEN trust ELSE None
  /\ revoked' = TRUE
  /\ Leave(a)
  /\ UNCHANGED <<settings, keyring>>

\* The last step of setup, login and logout. _invalidate_control_trust
\* swallows an OSError: the command reports success either way.
Invalidate(a) ==
  /\ admin[a].step = "invalidate"
  /\ \/ trust' = None
     \/ TrustFaults /\ UNCHANGED trust
  /\ revoked' = TRUE
  /\ Leave(a)
  /\ UNCHANGED <<settings, keyring>>

-----------------------------------------------------------------------------
(* login: the origin is read before the owner is asked for the token, and  *)
(* the prompt can stay open for as long as the owner likes.                *)

ReadForLogin(a) ==
  /\ admin[a].step = "idle"
  /\ settings # None
  /\ admin' = [admin EXCEPT ![a] = [step |-> "store", endpoint |-> settings,
                                    token |-> None]]
  /\ UNCHANGED files

\* Mutant: login stores the token under the origin configured by then.
StoreTokenLate(a) ==
  /\ admin[a].step = "store"
  /\ \E t \in {u \in Tokens : Issuer[u] = admin[a].endpoint.origin} :
       keyring' = [keyring EXCEPT ![settings.origin] = t]
  /\ Continue(a, "invalidate")
  /\ UNCHANGED <<settings, trust, revoked>>

\* Mutant: the keyring entry does not name the origin.
StoreTokenForAll(a) ==
  /\ admin[a].step = "store"
  /\ \E t \in {u \in Tokens : Issuer[u] = admin[a].endpoint.origin} :
       keyring' = [o \in Origins |-> t]
  /\ Continue(a, "invalidate")
  /\ UNCHANGED <<settings, trust, revoked>>

\* The owner supplies a token of the origin the login is for. A store that
\* fails may have written all the same; then the login stops as failed.
StoreToken(a) ==
  /\ admin[a].step = "store"
  /\ LET origin == admin[a].endpoint.origin IN
       \E t \in {u \in Tokens : Issuer[u] = origin} :
         \/ /\ keyring' = [keyring EXCEPT ![origin] = t]
            /\ Continue(a, "invalidate")
         \/ /\ keyring' \in {keyring, [keyring EXCEPT ![origin] = t]}
            /\ Leave(a)
  /\ UNCHANGED <<settings, trust, revoked>>

\* The prompt is abandoned, or the input is not a plausible token.
RejectToken(a) ==
  /\ admin[a].step = "store"
  /\ Leave(a)
  /\ UNCHANGED files

-----------------------------------------------------------------------------
(* logout                                                                  *)

ReadForLogout(a) ==
  /\ admin[a].step = "idle"
  /\ settings # None
  /\ admin' = [admin EXCEPT ![a] = [step |-> "delete", endpoint |-> settings,
                                    token |-> None]]
  /\ UNCHANGED files

\* Nothing stored, deleted, and deleted by somebody else are all successes.
DeleteToken(a) ==
  /\ admin[a].step = "delete"
  /\ LET emptied == [keyring EXCEPT ![admin[a].endpoint.origin] = None] IN
       \/ /\ keyring' = emptied
          /\ Continue(a, "invalidate")
       \/ /\ keyring' \in {keyring, emptied}
          /\ Leave(a)
  /\ UNCHANGED <<settings, trust, revoked>>

-----------------------------------------------------------------------------
(* enable-control: the three reads of ControlRuntime._endpoint, then the   *)
(* write of the trust file. A failed read ends the command.                *)

EnableReadSettings(a) ==
  /\ admin[a].step = "idle"
  /\ settings # None
  /\ admin' = [admin EXCEPT ![a] = [step |-> "recheck", endpoint |-> settings,
                                    token |-> None]]
  /\ UNCHANGED files

\* credential_for reads the settings once more and wants the same origin.
EnableRecheckOrigin(a) ==
  /\ admin[a].step = "recheck"
  /\ \/ /\ settings # None /\ settings.origin = admin[a].endpoint.origin
        /\ Continue(a, "keyring")
     \/ Leave(a)
  /\ UNCHANGED files

\* Mutant: an absent keyring entry is not refused.
EnableReadKeyringBlindly(a) ==
  /\ admin[a].step = "keyring"
  /\ admin' = [admin EXCEPT ![a].step = "grant",
                            ![a].token = keyring[admin[a].endpoint.origin]]
  /\ UNCHANGED files

\* Mutant: the key is taken from the settings as they are by then.
EnableReadKeyringLate(a) ==
  /\ admin[a].step = "keyring"
  /\ LET stored == keyring[settings.origin] IN
       /\ stored # None
       /\ admin' = [admin EXCEPT ![a].step = "grant", ![a].token = stored]
  /\ UNCHANGED files

EnableReadKeyring(a) ==
  /\ admin[a].step = "keyring"
  /\ LET stored == keyring[admin[a].endpoint.origin] IN
       \/ /\ stored # None
          /\ admin' = [admin EXCEPT ![a] = [step |-> "grant",
                         endpoint |-> admin[a].endpoint, token |-> stored]]
       \/ Leave(a)
  /\ UNCHANGED files

\* The write can fail before the rename, or after it (the chmod): the second
\* leaves trust enabled although the command reports it as disabled.
Grant(a) ==
  /\ admin[a].step = "grant"
  /\ \/ /\ trust' = Binding(admin[a].endpoint, admin[a].token)
        /\ revoked' = FALSE
     \/ /\ TrustFaults
        /\ UNCHANGED <<trust, revoked>>
  /\ Leave(a)
  /\ UNCHANGED <<settings, keyring>>

\* disable-control reports a failed write, which may have happened anyway.
Disable(a) ==
  /\ admin[a].step = "idle"
  /\ \/ trust' = None /\ revoked' = TRUE
     \/ TrustFaults /\ trust' \in {trust, None} /\ UNCHANGED revoked
  /\ UNCHANGED <<settings, keyring, admin>>

\* A command is killed, or its machine loses power, between two steps.
CrashAdmin(a) ==
  /\ admin[a].step # "idle"
  /\ Leave(a)
  /\ UNCHANGED files

-----------------------------------------------------------------------------
AdminStep(a) ==
  \/ SaveSettings(a)
  \/ Invalidate(a)
  \/ ReadForLogin(a)
  \/ StoreToken(a)
  \/ RejectToken(a)
  \/ ReadForLogout(a)
  \/ DeleteToken(a)
  \/ EnableReadSettings(a)
  \/ EnableRecheckOrigin(a)
  \/ EnableReadKeyring(a)
  \/ Grant(a)
  \/ Disable(a)
  \/ CrashAdmin(a)

LocalNext == \E a \in Admins : AdminStep(a)

LocalSpec == LocalInit /\ [][LocalNext]_localVars

-----------------------------------------------------------------------------
\* A token only ever lies under the origin that issued it, whatever setups
\* run while a login waits at its prompt: login keeps the origin it read.
KeyringScoped ==
  \A o \in Origins : keyring[o] # None => Issuer[keyring[o]] = o

\* Trust never couples a token with an origin that did not issue it, although
\* enable-control reads settings and keyring at three different instants.
TrustScoped == trust # None => Issuer[trust.token] = trust.origin

\* Once a setup, login, logout or disable-control has been reported as done,
\* control stays disabled until trust is granted anew.
RevocationHolds == revoked => trust = None
=============================================================================
