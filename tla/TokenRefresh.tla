---------------------------- MODULE TokenRefresh ----------------------------
(***************************************************************************)
(* Google credentials (google_auth): processes of one host resolve the     *)
(* credentials of one key in the fleet's order, and those that find the    *)
(* stored token expired refresh it one at a time behind a lock file.  An   *)
(* access token is its serial number; time passing expires every token     *)
(* issued so far.  What Google's library does (from_authorized_user_info   *)
(* takes the scopes it is given, to_json writes them back, refresh issues  *)
(* a token) is modelled from its use in refresh.py.                        *)
(***************************************************************************)
EXTENDS Naturals, FiniteSets

CONSTANTS Resolvers,    \* the processes
          Specs,        \* what they declare: [given, scopes, interactive, client]
          Grants,       \* the scopes a token stored before may carry
          MaxResolves,  \* bound: resolve_credentials calls
          MaxExpiries   \* bound: times the tokens expire

ASSUME SpecsAssumption == Specs # {}
ASSUME ResolversAssumption == IsFiniteSet(Resolvers) /\ MaxResolves \in Nat

VARIABLES call,     \* per process, the call it is in
          stored,   \* the token in the store, {} when there is none
          holder,   \* who holds the lock file
          issued, lapsed,     \* serials issued, and expired, so far
          resolves

tokenVars == <<call, stored, holder, issued, lapsed, resolves>>

ResolverSteps == {"idle", "load", "lock", "reload", "refresh", "save"}
Outcomes == {"none", "given", "invalid", "token", "flow", "unavailable", "mismatch", "timeout",
             "failed"}
NoCall == [step |-> "idle", spec |-> CHOOSE s \in Specs : TRUE, serial |-> 0, outcome |-> "none"]
Valid(token) == token.serial > lapsed

At(r, step) == call[r].step = step
Goes(r, step) == call' = [call EXCEPT ![r].step = step]
Ends(r, outcome) == call' = [call EXCEPT ![r].step = "idle", ![r].outcome = outcome]

----------------------------------------------------------------------------
(* resolve_credentials *)

Begin(r, s) ==
  /\ At(r, "idle") /\ resolves < MaxResolves
  /\ resolves' = resolves + 1
  /\ call' = [call EXCEPT ![r] = [NoCall EXCEPT !.step = "load", !.spec = s]]
  /\ UNCHANGED <<stored, holder, issued, lapsed>>

\* Injected credentials and a service account come before any token; what the
\* environment holds for the account may not parse.
Given(r) ==
  /\ At(r, "load") /\ call[r].spec.given # "no"
  /\ Ends(r, IF call[r].spec.given = "garbled" THEN "invalid" ELSE "given")
  /\ UNCHANGED <<stored, holder, issued, lapsed, resolves>>

Grantee(r) == {t \in stored : call[r].spec.scopes \subseteq t.scopes}

\* The stored token, when it grants the declared scopes: used while valid,
\* else handed to the refresh layer.
UseStored(r) ==
  /\ At(r, "load") /\ call[r].spec.given = "no"
  /\ \E t \in Grantee(r) :
       IF Valid(t)
       THEN call' = [call EXCEPT ![r].step = "idle", ![r].outcome = "token", ![r].serial = t.serial]
       ELSE IF ~t.renewable THEN Ends(r, "unavailable")
       ELSE Goes(r, "lock")
  /\ UNCHANGED <<stored, holder, issued, lapsed, resolves>>

\* No token, or one too narrow: the consent flow where it is allowed and its
\* client is configured, whose credentials are handed out and not stored, else
\* an error that says what to do.
NoStored(r) ==
  /\ At(r, "load") /\ call[r].spec.given = "no" /\ Grantee(r) = {}
  /\ IF call[r].spec.interactive /\ call[r].spec.client
     THEN \E ok \in BOOLEAN : Ends(r, IF ok THEN "flow" ELSE "failed")
     ELSE Ends(r, IF stored # {} /\ ~call[r].spec.interactive THEN "mismatch" ELSE "unavailable")
  /\ UNCHANGED <<stored, holder, issued, lapsed, resolves>>

----------------------------------------------------------------------------
(* refresh_if_needed *)

\* A bug to find: the lock file is not waited for.
TakeLock_Barges(r) ==
  /\ At(r, "lock")
  /\ holder' = holder \cup {r} /\ Goes(r, "reload")
  /\ UNCHANGED <<stored, issued, lapsed, resolves>>

TakeLock(r) ==
  /\ At(r, "lock") /\ holder = {}
  /\ holder' = {r} /\ Goes(r, "reload")
  /\ UNCHANGED <<stored, issued, lapsed, resolves>>

LockTimesOut(r) ==
  /\ At(r, "lock") /\ holder # {}
  /\ Ends(r, "timeout")
  /\ UNCHANGED <<stored, holder, issued, lapsed, resolves>>

\* Under the lock the store is read again: whoever held it before may have
\* refreshed.  The token found is used whatever scopes it grants.
Reload(r) ==
  /\ At(r, "reload")
  /\ IF \E t \in stored : Valid(t)
     THEN /\ \E t \in stored : call' = [call EXCEPT ![r].step = "idle", ![r].outcome = "token",
                                                     ![r].serial = t.serial]
          /\ holder' = holder \ {r}
     ELSE Goes(r, "refresh") /\ UNCHANGED holder
  /\ UNCHANGED <<stored, issued, lapsed, resolves>>

RefreshToken(r) ==
  /\ At(r, "refresh")
  /\ issued' = issued + 1
  /\ call' = [call EXCEPT ![r].step = "save", ![r].serial = issued + 1]
  /\ UNCHANGED <<stored, holder, lapsed, resolves>>

RefreshFails(r) ==
  /\ At(r, "refresh")
  /\ Ends(r, "unavailable") /\ holder' = holder \ {r}
  /\ UNCHANGED <<stored, issued, lapsed, resolves>>

\* What is saved carries the scopes this process declared.
Save(r) ==
  /\ At(r, "save")
  /\ stored' = {[serial |-> call[r].serial, scopes |-> call[r].spec.scopes, renewable |-> TRUE]}
  /\ Ends(r, "token") /\ holder' = holder \ {r}
  /\ UNCHANGED <<issued, lapsed, resolves>>

\* A store that cannot be written keeps the token it had, and the error is
\* the caller's.
SaveFails(r) ==
  /\ At(r, "save")
  /\ Ends(r, "failed") /\ holder' = holder \ {r}
  /\ UNCHANGED <<stored, issued, lapsed, resolves>>

----------------------------------------------------------------------------
\* The system releases the lock of a process that dies.
Dies(r) ==
  /\ ~At(r, "idle")
  /\ call' = [call EXCEPT ![r] = NoCall] /\ holder' = holder \ {r}
  /\ UNCHANGED <<stored, issued, lapsed, resolves>>

Expire ==
  /\ lapsed < issued /\ issued <= MaxExpiries
  /\ lapsed' = issued
  /\ UNCHANGED <<call, stored, holder, issued, resolves>>

TokenInit ==
  /\ call = [r \in Resolvers |-> NoCall] /\ holder = {} /\ issued = 1 /\ resolves = 0
  /\ lapsed \in {0, 1}
  /\ stored \in {{}} \cup {{[serial |-> 1, scopes |-> g, renewable |-> b]} :
                            g \in Grants, b \in BOOLEAN}

ResolverStep(r) ==
  \/ Given(r) \/ UseStored(r) \/ NoStored(r) \/ TakeLock(r) \/ LockTimesOut(r) \/ Reload(r)
  \/ RefreshToken(r) \/ RefreshFails(r) \/ Save(r) \/ SaveFails(r)

TokenNext ==
  \/ \E r \in Resolvers : ResolverStep(r) \/ Dies(r) \/ \E s \in Specs : Begin(r, s)
  \/ Expire

TokenSpec == TokenInit /\ [][TokenNext]_tokenVars

\* A process that runs takes its steps: the library's calls return, and a
\* wait for the lock ends with the lock or with the timeout.
TokenFairness == \A r \in Resolvers : WF_tokenVars(ResolverStep(r))

----------------------------------------------------------------------------
TokenTypeOK ==
  /\ \A r \in Resolvers : call[r].step \in ResolverSteps /\ call[r].outcome \in Outcomes
  /\ Cardinality(stored) <= 1 /\ holder \subseteq Resolvers
  /\ issued \in 1 .. MaxResolves + 1 /\ lapsed \in 0 .. issued /\ resolves \in 0 .. MaxResolves

\* A token is refreshed only while the store holds none that is valid, and a
\* save never puts an older token over a newer one.
RefreshedOnlyWhenDue ==
  [][/\ issued' > issued => \A t \in stored : ~Valid(t)
     /\ \A t \in stored, u \in stored' : u.serial >= t.serial]_tokenVars

\* Whoever asks for credentials gets them or an error.
ResolversEnd == \A r \in Resolvers : []<>At(r, "idle")
=============================================================================
