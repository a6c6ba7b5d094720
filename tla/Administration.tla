------------------------------ MODULE Administration ------------------------------
(***************************************************************************)
(* What an administrator changes and what that makes of the providers, in  *)
(* one specification: logins, their sessions, the settings of an HTTP      *)
(* provider, the runtime state of a subscription provider.  The parts have *)
(* no variable in common; a behaviour is one of one part, while the others *)
(* rest in an initial state.                                               *)
(***************************************************************************)
EXTENDS Naturals, TLC

CONSTANTS Client, PerClient, Global, Window, Lease, LastTick,   \* LoginGuard
          Tab, MaxSession,                                      \* AdminSession
          Config, Manual, Key, Admin, MaxRevision,              \* HttpProvider
          Run, MaxAuth, MaxProbe, MaxLogin                      \* SubscriptionRuntime

ASSUME AdministrationAssumption ==
    /\ PerClient \in Nat \ {0} /\ Global \in Nat /\ PerClient <= Global
    /\ Window \in Nat /\ Lease \in Nat /\ LastTick \in Nat
    /\ MaxSession \in Nat
    /\ MaxRevision \in Nat \ {0} /\ "none" \notin Key
    /\ MaxAuth \in Nat /\ MaxProbe \in Nat /\ MaxLogin \in Nat \ {0}

VARIABLES part,
          now, totp, allowed, buckets, global, lock, entry, trusted, spent,
          issued, rows, cookie, page, request,
          provider, secret, form, test, catalog, call, settings, proved,
          enabled, rt, jobs, runs, attempt, login, fenced, proof

Guard == INSTANCE LoginGuard WITH attempt <- entry
Session == INSTANCE AdminSession
Http == INSTANCE HttpProvider
Subscription == INSTANCE SubscriptionRuntime

guard == <<now, totp, allowed, buckets, global, lock, entry, trusted, spent>>
session == <<issued, rows, cookie, page, request>>
http == <<provider, secret, form, test, catalog, call, settings, proved>>
subscription == <<enabled, rt, jobs, runs, attempt, login, fenced, proof>>
vars == <<part, guard, session, http, subscription>>

-----------------------------------------------------------------------------
TypeOK == Guard!TypeOK /\ Session!TypeOK /\ Http!TypeOK /\ Subscription!TypeOK

\* Where a part rests that has several initial states.
Resting == /\ part = "guard" \/ (~totp /\ allowed = {})
           /\ part = "http" \/ (provider.config = (CHOOSE c \in Config : TRUE) /\ secret = "none")

Init == /\ part \in {"guard", "session", "http", "subscription"}
        /\ Guard!Init /\ Session!Init /\ Http!Init /\ Subscription!Init
        /\ Resting

Next == /\ UNCHANGED part
        /\ \/ /\ part = "guard" /\ Guard!Next
              /\ UNCHANGED <<session, http, subscription>>
           \/ /\ part = "session" /\ Session!Next
              /\ UNCHANGED <<guard, http, subscription>>
           \/ /\ part = "http" /\ Http!Next
              /\ UNCHANGED <<guard, session, subscription>>
           \/ /\ part = "subscription" /\ Subscription!Next
              /\ UNCHANGED <<guard, session, http>>

Spec == Init /\ [][Next]_vars

\* Keys and windows are told apart by nothing.
Symmetry == Permutations(Key) \cup Permutations(Admin)

-----------------------------------------------------------------------------
\* However its own window and the shared one overlap, a client spends less than
\* two of its windows out of a shared one, so it cannot lock the others out; and
\* two passwords are compared at a time only if a lease ran out (LoginGuard).
LoginsBounded == Guard!LoginsBounded

\* No request that begins after its session was revoked is served, however the
\* requests and logins of the tabs overlap (AdminSession).
RevokedIsShut == Session!RevokedIsShut

\* The row of a provider says of which settings it is, whatever windows were open
\* and whichever saved first; and a call sends the key of one revision to the
\* endpoint of the same revision, although the two are read one after the other
\* (HttpProvider).
SettingsTogether == Http!IdentityTracksSettings /\ Http!OneRevisionExecutes

\* A manual model is listed only if its endpoint answered a test with this very
\* configuration and key, even if rows were read across a save (HttpProvider).
ListedWasTested == Http!ListedWasTested

\* A provider is routed to only on the evidence of a probe that looked at it after
\* the last time it was fenced or switched off, it is not shown as ready
\* otherwise, and the probe that others wait for can still make it ready
\* (SubscriptionRuntime).
ReadinessIsProved == /\ Subscription!RoutableIsProbed /\ Subscription!ShownReadyIsRoutable
                     /\ Subscription!ActiveProbeCanCommit
=============================================================================
