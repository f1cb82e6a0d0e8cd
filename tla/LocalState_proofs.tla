-------------------------- MODULE LocalState_proofs --------------------------
(***************************************************************************)
(* What holds of the settings, the keyring and the trust file for any      *)
(* number of commands, origins, transport modes and tokens.                *)
(***************************************************************************)
EXTENDS LocalState, TLAPS

\* What a command carries from its reads: an endpoint once it has read the
\* settings, and a token of that endpoint's origin once it is about to grant.
AdminCarries ==
  \A a \in Admins :
    /\ admin[a].step \in {"store", "delete", "recheck", "keyring", "grant"} =>
         admin[a].endpoint \in Endpoint
    /\ admin[a].step = "grant" =>
         /\ admin[a].token \in Tokens
         /\ Issuer[admin[a].token] = admin[a].endpoint.origin

LocalInv == LocalTypeOK /\ AdminCarries /\ KeyringScoped /\ TrustScoped

\* The installations that the commands start from satisfy the invariant.
LEMMA LocalInitInv == LocalInit => LocalInv
<1> SUFFICES ASSUME LocalInit
             PROVE  LocalInv
  OBVIOUS
<1>1. settings \in Endpoint \cup {None} /\ revoked \in BOOLEAN
  BY DEF LocalInit
<1>2. keyring \in [Origins -> Tokens \cup {None}] /\ KeyringScoped
  BY DEF LocalInit, KeyringScoped
<1>3. trust \in Bindings \cup {None} /\ TrustScoped
  BY DEF LocalInit, TrustScoped
<1>4. /\ admin \in [Admins -> [step : Steps, endpoint : Endpoint \cup {None},
                              token : Tokens \cup {None}]]
      /\ AdminCarries
  BY DEF LocalInit, AtRest, Steps, AdminCarries
<1> QED BY <1>1, <1>2, <1>3, <1>4 DEF LocalInv, LocalTypeOK

\* Binding pairs an endpoint with a token.
LEMMA BindingType ==
  ASSUME NEW e \in Endpoint, NEW t \in Tokens
  PROVE  /\ Binding(e, t) \in Bindings
         /\ Binding(e, t).origin = e.origin
         /\ Binding(e, t).token = t
BY DEF Binding, Bindings, Endpoint

\* A command that moves on without touching a file keeps the invariant.
LEMMA KeepFiles ==
  ASSUME LocalInv, UNCHANGED files,
         admin' \in [Admins -> [step : Steps, endpoint : Endpoint \cup {None},
                                token : Tokens \cup {None}]],
         AdminCarries'
  PROVE  LocalInv'
BY DEF LocalInv, LocalTypeOK, KeyringScoped, TrustScoped, files

\* Every step of a command preserves the invariant.
LEMMA LocalStep ==
  ASSUME LocalInv, NEW a \in Admins, AdminStep(a)
  PROVE  LocalInv'
<1> USE LocalAssumption
<1> DEFINE AdminType == [Admins -> [step : Steps, endpoint : Endpoint \cup {None},
                                    token : Tokens \cup {None}]]
<1>typed. /\ admin \in AdminType
          /\ settings \in Endpoint \cup {None}
          /\ keyring \in [Origins -> Tokens \cup {None}]
          /\ trust \in Bindings \cup {None}
          /\ revoked \in BOOLEAN
  BY DEF LocalInv, LocalTypeOK
<1>rest. ASSUME Leave(a)
         PROVE  admin' \in AdminType /\ AdminCarries'
  BY <1>typed, <1>rest DEF Leave, AtRest, Steps, AdminCarries, LocalInv
<1>1. CASE SaveSettings(a)
  BY <1>typed, <1>1 DEF SaveSettings, Continue, LocalInv, LocalTypeOK, AdminCarries,
     KeyringScoped, TrustScoped, Steps
<1>2. CASE Invalidate(a)
  BY <1>typed, <1>rest, <1>2 DEF Invalidate, LocalInv, LocalTypeOK, KeyringScoped,
     TrustScoped
<1>3. CASE ReadForLogin(a)
  BY <1>typed, <1>3 DEF ReadForLogin, files, LocalInv, LocalTypeOK, AdminCarries,
     KeyringScoped, TrustScoped, Steps
<1>4. CASE StoreToken(a)
  <2> DEFINE origin == admin[a].endpoint.origin
  <2>1. origin \in Origins
    BY <1>typed, <1>4 DEF StoreToken, LocalInv, AdminCarries, Endpoint
  <2>2. PICK t \in Tokens : /\ Issuer[t] = origin
                            /\ keyring' \in {keyring, [keyring EXCEPT ![origin] = t]}
                            /\ Continue(a, "invalidate") \/ Leave(a)
    BY <1>4 DEF StoreToken
  <2>3. keyring' \in [Origins -> Tokens \cup {None}] /\ KeyringScoped'
    BY <1>typed, <2>1, <2>2 DEF LocalInv, KeyringScoped
  <2>4. admin' \in AdminType /\ AdminCarries'
    BY <1>typed, <1>rest, <2>2 DEF Continue, LocalInv, AdminCarries, Steps
  <2> QED
    BY <1>typed, <1>4, <2>3, <2>4 DEF StoreToken, LocalInv, LocalTypeOK, TrustScoped
<1>5. CASE RejectToken(a)
  BY <1>rest, <1>5, KeepFiles DEF RejectToken
<1>6. CASE ReadForLogout(a)
  BY <1>typed, <1>6 DEF ReadForLogout, files, LocalInv, LocalTypeOK, AdminCarries,
     KeyringScoped, TrustScoped, Steps
<1>7. CASE DeleteToken(a)
  <2> DEFINE emptied == [keyring EXCEPT ![admin[a].endpoint.origin] = None]
  <2>1. /\ keyring' \in {keyring, emptied}
        /\ Continue(a, "invalidate") \/ Leave(a)
    BY <1>7 DEF DeleteToken
  <2>2. keyring' \in [Origins -> Tokens \cup {None}] /\ KeyringScoped'
    BY <1>typed, <2>1 DEF LocalInv, KeyringScoped
  <2>3. admin' \in AdminType /\ AdminCarries'
    BY <1>typed, <1>rest, <2>1 DEF Continue, LocalInv, AdminCarries, Steps
  <2> QED
    BY <1>typed, <1>7, <2>2, <2>3 DEF DeleteToken, LocalInv, LocalTypeOK, TrustScoped
<1>8. CASE EnableReadSettings(a)
  BY <1>typed, <1>8 DEF EnableReadSettings, files, LocalInv, LocalTypeOK, AdminCarries,
     KeyringScoped, TrustScoped, Steps
<1>9. CASE EnableRecheckOrigin(a)
  <2>1. CASE Continue(a, "keyring")
    BY <1>typed, <1>9, <2>1, KeepFiles DEF EnableRecheckOrigin, Continue, LocalInv,
       AdminCarries, Steps
  <2> QED BY <1>rest, <1>9, <2>1, KeepFiles DEF EnableRecheckOrigin
<1>10. CASE EnableReadKeyring(a)
  <2> DEFINE stored == keyring[admin[a].endpoint.origin]
  <2>1. CASE /\ stored # None
             /\ admin' = [admin EXCEPT ![a] = [step |-> "grant",
                            endpoint |-> admin[a].endpoint, token |-> stored]]
    <3>1. admin[a].endpoint \in Endpoint /\ admin[a].endpoint.origin \in Origins
      BY <1>10 DEF EnableReadKeyring, LocalInv, AdminCarries, Endpoint
    <3>2. stored \in Tokens /\ Issuer[stored] = admin[a].endpoint.origin
      BY <1>typed, <2>1, <3>1 DEF LocalInv, KeyringScoped
    <3>3. admin' \in AdminType
      BY <1>typed, <2>1, <3>1, <3>2 DEF Steps
    <3>4. AdminCarries'
      BY <1>typed, <2>1, <3>1, <3>2 DEF LocalInv, AdminCarries
    <3> QED BY <1>10, <3>3, <3>4, KeepFiles DEF EnableReadKeyring
  <2> QED BY <1>rest, <1>10, <2>1, KeepFiles DEF EnableReadKeyring
<1>11. CASE Grant(a)
  <2>1. /\ admin[a].endpoint \in Endpoint
        /\ admin[a].token \in Tokens
        /\ Issuer[admin[a].token] = admin[a].endpoint.origin
    BY <1>11 DEF Grant, LocalInv, AdminCarries
  <2>2. trust' \in Bindings \cup {None} /\ TrustScoped'
    BY <1>typed, <1>11, <2>1, BindingType DEF Grant, LocalInv, TrustScoped
  <2> QED
    BY <1>typed, <1>rest, <1>11, <2>2 DEF Grant, LocalInv, LocalTypeOK, KeyringScoped
<1>12. CASE Disable(a)
  BY <1>typed, <1>12 DEF Disable, LocalInv, LocalTypeOK, AdminCarries, KeyringScoped,
     TrustScoped
<1>13. CASE CrashAdmin(a)
  BY <1>rest, <1>13, KeepFiles DEF CrashAdmin
<1> QED
  BY <1>1, <1>2, <1>3, <1>4, <1>5, <1>6, <1>7, <1>8, <1>9, <1>10, <1>11, <1>12,
     <1>13 DEF AdminStep

\* A step that leaves the local state alone preserves the invariant.
LEMMA LocalStutter ==
  ASSUME LocalInv, UNCHANGED localVars
  PROVE  LocalInv'
BY DEF LocalInv, LocalTypeOK, AdminCarries, KeyringScoped, TrustScoped, localVars

\* For any number of concurrently running commands, tokens stay under the
\* origin that issued them and trust couples no token with another origin.
THEOREM LocalInvariance == LocalSpec => []LocalInv
<1>1. LocalInv /\ [LocalNext]_localVars => LocalInv'
  BY LocalStep, LocalStutter DEF LocalNext
<1> QED BY <1>1, LocalInitInv, PTL DEF LocalSpec

\* The files, the keyring and what each command carries stay well formed.
THEOREM LocalTypes == LocalSpec => []LocalTypeOK
BY LocalInvariance, PTL DEF LocalInv

\* A keyring entry holds a token of its own home, whatever the order of
\* setups, logins and logouts of any number of commands.
THEOREM KeyringStaysScoped == LocalSpec => []KeyringScoped
BY LocalInvariance, PTL DEF LocalInv

\* A grant never binds one home together with the token of another.
THEOREM TrustStaysScoped == LocalSpec => []TrustScoped
BY LocalInvariance, PTL DEF LocalInv

\* As long as the trust file can be written, a setup, login, logout or
\* disable-control that was reported as done keeps control disabled until
\* trust is granted anew, whatever the other commands are doing.
THEOREM RevocationStands ==
  ASSUME TrustFaults = FALSE
  PROVE  LocalSpec => []RevocationHolds
<1>1. LocalInit => RevocationHolds
  BY DEF LocalInit, RevocationHolds
<1>2. RevocationHolds /\ [LocalNext]_localVars => RevocationHolds'
  <2> SUFFICES ASSUME RevocationHolds, [LocalNext]_localVars
               PROVE  RevocationHolds'
    OBVIOUS
  <2>1. CASE UNCHANGED localVars
    BY <2>1 DEF RevocationHolds, localVars
  <2>2. ASSUME NEW a \in Admins, AdminStep(a)
        PROVE  RevocationHolds'
    <3>1. CASE UNCHANGED <<trust, revoked>>
      BY <3>1 DEF RevocationHolds
    <3>2. CASE Invalidate(a) \/ Grant(a) \/ Disable(a)
      BY <3>2, TrustFaults = FALSE DEF Invalidate, Grant, Disable, RevocationHolds
    <3> QED
      BY <2>2, <3>1, <3>2 DEF AdminStep, SaveSettings, ReadForLogin, StoreToken,
         RejectToken, ReadForLogout, DeleteToken, EnableReadSettings,
         EnableRecheckOrigin, EnableReadKeyring, CrashAdmin, files
  <2> QED BY <2>1, <2>2 DEF LocalNext
<1> QED BY <1>1, <1>2, PTL DEF LocalSpec
=============================================================================
