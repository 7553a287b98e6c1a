----------------------- MODULE PermissionRefreshProofs -----------------------
(***************************************************************************)
(* The permission protocol is correct for any number of users, tokens and  *)
(* concurrent handlers, any number of failures and crashes.                *)
(*                                                                         *)
(* The argument.  A handler works on copies of a session that may be old.  *)
(* Copies says what a copy can still be: one that has the stored revision  *)
(* is the stored session.  So every script that stores a session starts    *)
(* from the stored one, which is what StoreSpec asks (StoreStep), and the  *)
(* rest of SessionStore's guarantees follow.  Authorities says that        *)
(* whatever carries the current permission version carries the current     *)
(* menu permissions, and that nothing carries it between the announcement  *)
(* of a change and its commit; it is kept because snapshots are read and   *)
(* written under one lock (LockDiscipline, FreshSnapshots).                *)
(***************************************************************************)
EXTENDS PermissionRefresh, TLAPS

-----------------------------------------------------------------------------
(* What Redis guarantees to every caller of the session scripts: the       *)
(* inductive invariant is type correctness together with SessionsIndexed   *)
(* and SessionsCurrent.  Revocation deletes what the index names, so only  *)
(* with SessionsIndexed does it reach every session.                       *)

StoreInv == StoreTypeOK /\ SessionsIndexed /\ SessionsCurrent

\* Redis starts empty.
LEMMA StoreInvInit == StoreInit => StoreInv
  BY NoneAssumption DEF StoreInit, StoreInv, StoreTypeOK, SessionsIndexed, SessionsCurrent, Live

\* Storing a session for the user that owns the token, at that user's
\* generation, keeps the invariant.
LEMMA StoreSessionInv ==
    ASSUME StoreInv, NEW t \in Tokens, NEW s \in Session,
           s.generation = generation[s.user], owner[t] = s.user, StoreSession(t, s)
    PROVE  StoreInv'
<1>1. StoreTypeOK'
  BY DEF StoreInv, StoreTypeOK, StoreSession, Session
<1>2. SessionsIndexed'
  BY NoneAssumption DEF StoreInv, StoreTypeOK, SessionsIndexed, StoreSession, Session, Live
<1>3. SessionsCurrent'
  BY DEF StoreInv, StoreTypeOK, SessionsCurrent, StoreSession, Session, Live
<1> QED BY <1>1, <1>2, <1>3 DEF StoreInv

\* Every script and every expiry keeps the invariant.
LEMMA StoreInvStep == StoreInv /\ [StoreNext]_storeVars => StoreInv'
<1> SUFFICES ASSUME StoreInv, [StoreNext]_storeVars PROVE StoreInv'
  OBVIOUS
<1> USE DEF StoreInv
<1>1. ASSUME NEW t \in Tokens, NEW s \in Session, CreateSession(t, s) PROVE StoreInv'
  <2>1. s.generation = generation[s.user]
    BY <1>1 DEF CreateSession, CreateResult
  <2>2. StoreTypeOK'
    BY <1>1 DEF StoreTypeOK, CreateSession, Session
  <2>3. SessionsIndexed'
    BY <1>1, NoneAssumption DEF StoreTypeOK, SessionsIndexed, CreateSession, Session, Live
  <2>4. SessionsCurrent'
    BY <1>1, <2>1 DEF StoreTypeOK, SessionsCurrent, CreateSession, Session, Live
  <2> QED BY <2>2, <2>3, <2>4
<1>2. ASSUME NEW t \in Tokens, Live(t), RenewSession(t, session[t]) PROVE StoreInv'
  <2>1. session[t] \in Session /\ owner[t] = session[t].user
    BY <1>2 DEF StoreTypeOK, SessionsIndexed, Live
  <2> QED
    BY <1>2, <2>1, StoreSessionInv DEF RenewSession, SessionsCurrent
<1>3. ASSUME NEW t \in Tokens, Live(t), NEW s \in Session,
             UpdateSessionPermissions(t, session[t], s.version, s.snap)
      PROVE  StoreInv'
  <2> DEFINE new == Updated(session[t], s.version, s.snap)
  <2>1. session[t] \in Session /\ owner[t] = session[t].user
    BY <1>3 DEF StoreTypeOK, SessionsIndexed, Live
  <2>2. new \in Session /\ new.user = session[t].user /\ new.generation = session[t].generation
    BY <2>1 DEF Updated, Session
  <2>3. new.generation = generation[new.user]
    BY <1>3, <2>2 DEF SessionsCurrent
  <2> QED
    BY <1>3, <2>1, <2>2, <2>3, StoreSessionInv DEF UpdateSessionPermissions
<1>4. ASSUME NEW t \in Tokens, DeleteSession(t) PROVE StoreInv'
  BY <1>4, NoneAssumption
     DEF StoreTypeOK, SessionsIndexed, SessionsCurrent, DeleteSession, Live, Session
<1>5. ASSUME NEW t \in Tokens, ExpireSession(t) PROVE StoreInv'
  BY <1>5, NoneAssumption
     DEF StoreTypeOK, SessionsIndexed, SessionsCurrent, ExpireSession, Live
<1>6. ASSUME NEW us \in SUBSET Users, RevokeSessions(us) PROVE StoreInv'
  <2>1. StoreTypeOK'
    BY <1>6 DEF StoreTypeOK, RevokeSessions
  <2>2. ASSUME NEW t \in Tokens, Live(t)'
        PROVE  session[t] \in Session /\ session'[t] = session[t] /\ owner[t] \in Users \ us
    <3>1. ~ \E u \in us : t \in index[u]
      BY <1>6, <2>2 DEF RevokeSessions, Live
    <3>2. session'[t] = session[t] /\ Live(t)
      BY <1>6, <2>2, <3>1 DEF RevokeSessions, Live
    <3> QED
      BY <3>1, <3>2 DEF Live, SessionsIndexed, StoreTypeOK, Session
  <2>3. SessionsIndexed'
    <3>1. ASSUME NEW t \in Tokens, Live(t)'
          PROVE  session'[t].user = owner'[t] /\ t \in index'[owner'[t]]
      <4>1. Live(t) /\ owner[t] \in Users \ us /\ session'[t] = session[t]
        BY <2>2, <3>1 DEF Live
      <4> QED
        BY <1>6, <4>1 DEF RevokeSessions, SessionsIndexed
    <3>2. ASSUME NEW u \in Users, NEW t \in index'[u] PROVE owner'[t] = u
      BY <1>6, <3>2 DEF RevokeSessions, SessionsIndexed
    <3> QED
      BY <3>1, <3>2 DEF SessionsIndexed
  <2>4. SessionsCurrent'
    <3> SUFFICES ASSUME NEW t \in Tokens, Live(t)'
                 PROVE  session'[t].generation = generation'[session'[t].user]
      BY DEF SessionsCurrent
    <3>1. session[t] \in Session /\ session'[t] = session[t] /\ session[t].user \notin us
      BY <2>2, <2>3, <1>6 DEF SessionsIndexed, RevokeSessions
    <3>2. session[t].generation = generation[session[t].user] /\ session[t].user \in Users
      BY <3>1 DEF SessionsCurrent, Live, Session
    <3> QED
      BY <1>6, <3>1, <3>2 DEF RevokeSessions
  <2> QED BY <2>1, <2>3, <2>4
<1>7. ASSUME NEW us \in SUBSET Users, AdvancePermissionVersion(us) PROVE StoreInv'
  BY <1>7 DEF StoreTypeOK, SessionsIndexed, SessionsCurrent, AdvancePermissionVersion, Live
<1>8. ASSUME NEW us \in SUBSET Users, CleanIndex(us) PROVE StoreInv'
  <2>1. \A u \in Users : /\ index'[u] \subseteq index[u]
                          /\ \A t \in index[u] : Live(t) => t \in index'[u]
    BY <1>8 DEF CleanIndex
  <2>2. StoreTypeOK'
    BY <1>8, <2>1 DEF CleanIndex, StoreTypeOK
  <2>3. SessionsIndexed'
    BY <1>8, <2>1, NoneAssumption DEF CleanIndex, SessionsIndexed, StoreTypeOK, Live, Session
  <2>4. SessionsCurrent'
    BY <1>8 DEF CleanIndex, SessionsCurrent, Live
  <2> QED BY <2>2, <2>3, <2>4
<1>9. ASSUME NEW u \in Users, ExpireIndex(u) PROVE StoreInv'
  BY <1>9 DEF StoreTypeOK, SessionsIndexed, SessionsCurrent, ExpireIndex, LiveOf, Live
<1>10. ASSUME NEW u \in Users, ExpireGeneration(u) PROVE StoreInv'
  BY <1>10 DEF StoreTypeOK, SessionsIndexed, SessionsCurrent, ExpireGeneration, LiveOf, Live
<1>11. CASE UNCHANGED storeVars
  BY <1>11 DEF storeVars, StoreTypeOK, SessionsIndexed, SessionsCurrent, Live
<1> QED
  BY <1>1, <1>2, <1>3, <1>4, <1>5, <1>6, <1>7, <1>8, <1>9, <1>10, <1>11 DEF StoreNext

\* Whatever its callers do, Redis keeps every session indexed under its owner
\* and at its owner's generation.
THEOREM StoreCorrect == StoreSpec => [](StoreTypeOK /\ SessionsIndexed /\ SessionsCurrent)
<1>1. StoreInit => StoreInv BY StoreInvInit
<1>2. StoreInv /\ [StoreNext]_storeVars => StoreInv' BY StoreInvStep
<1> QED BY <1>1, <1>2, PTL DEF StoreSpec, StoreInv

\* No script stores a session for a token that has lost its session.
LEMMA NoResurrectionStep ==
    StoreInv /\ [StoreNext]_storeVars =>
      [\A t \in Tokens : owner[t] # None /\ ~ Live(t) => ~ Live(t)']_storeVars
<1> SUFFICES ASSUME StoreInv, StoreNext, NEW x \in Tokens, owner[x] # None, ~ Live(x)
             PROVE  ~ Live(x)'
  OBVIOUS
<1> USE DEF StoreInv, Live, StoreTypeOK
<1>1. ASSUME NEW t \in Tokens, NEW s \in Session, CreateSession(t, s) PROVE ~ Live(x)'
  BY <1>1 DEF CreateSession
<1>2. ASSUME NEW t \in Tokens, NEW s, Live(t), StoreSession(t, s) PROVE ~ Live(x)'
  BY <1>2 DEF StoreSession
<1>3. ASSUME NEW t \in Tokens, DeleteSession(t) \/ ExpireSession(t) PROVE ~ Live(x)'
  BY <1>3 DEF DeleteSession, ExpireSession
<1>4. ASSUME NEW us \in SUBSET Users,
             RevokeSessions(us) \/ AdvancePermissionVersion(us) \/ CleanIndex(us)
      PROVE ~ Live(x)'
  BY <1>4 DEF RevokeSessions, AdvancePermissionVersion, CleanIndex
<1>5. ASSUME NEW u \in Users, ExpireIndex(u) \/ ExpireGeneration(u) PROVE ~ Live(x)'
  BY <1>5 DEF ExpireIndex, ExpireGeneration
<1> QED
  BY <1>1, <1>2, <1>3, <1>4, <1>5 DEF StoreNext, RenewSession, UpdateSessionPermissions

\* A logged-out, revoked or expired token never names a session again.
THEOREM StoreNoResurrection == StoreSpec => NoResurrection
<1>1. StoreSpec => []StoreInv BY StoreCorrect, PTL DEF StoreInv
<1>2. StoreInv /\ [StoreNext]_storeVars =>
        [\A t \in Tokens : owner[t] # None /\ ~ Live(t) => ~ Live(t)']_storeVars
  BY NoResurrectionStep
<1> QED BY <1>1, <1>2, PTL DEF StoreSpec, NoResurrection

\* A stored session changes only together with its revision, which goes up.
LEMMA RefreshNotUndoneStep ==
    ASSUME StoreInv, StoreNext, NEW x \in Tokens, Live(x), Live(x)'
    PROVE  /\ session'[x].revision >= session[x].revision
           /\ session'[x].snap # session[x].snap => session'[x].revision > session[x].revision
<1> USE DEF StoreInv, Live, StoreTypeOK
<1>1. session[x] \in Session /\ session[x].revision \in Nat
  BY DEF Session
<1>2. ASSUME session'[x] \in {session[x], None}
      PROVE  session'[x].snap = session[x].snap /\ session'[x].revision >= session[x].revision
  BY <1>1, <1>2
<1>3. ASSUME NEW t \in Tokens, NEW s \in Session, CreateSession(t, s)
      PROVE  session'[x] = session[x]
  BY <1>1, <1>3, NoneAssumption DEF CreateSession, SessionsIndexed, Session
<1>4. ASSUME NEW t \in Tokens, Live(t), RenewSession(t, session[t])
      PROVE  session'[x] = session[x]
  BY <1>4 DEF RenewSession, StoreSession
<1>5. ASSUME NEW t \in Tokens, Live(t), NEW s \in Session,
             UpdateSessionPermissions(t, session[t], s.version, s.snap)
      PROVE  session'[x] = session[x] \/ session'[x].revision = session[x].revision + 1
  BY <1>5 DEF UpdateSessionPermissions, StoreSession, Updated
<1>6. ASSUME NEW t \in Tokens, DeleteSession(t) \/ ExpireSession(t)
      PROVE  session'[x] \in {session[x], None}
  BY <1>6 DEF DeleteSession, ExpireSession
<1>7. ASSUME NEW us \in SUBSET Users,
             RevokeSessions(us) \/ AdvancePermissionVersion(us) \/ CleanIndex(us)
      PROVE  session'[x] \in {session[x], None}
  BY <1>7 DEF RevokeSessions, AdvancePermissionVersion, CleanIndex
<1>8. ASSUME NEW u \in Users, ExpireIndex(u) \/ ExpireGeneration(u)
      PROVE  session'[x] = session[x]
  BY <1>8 DEF ExpireIndex, ExpireGeneration
<1> QED
  BY <1>1, <1>2, <1>3, <1>4, <1>5, <1>6, <1>7, <1>8 DEF StoreNext

\* No script, whatever copy its caller holds, takes a session back to an older
\* snapshot.
THEOREM StoreRefreshNotUndone == StoreSpec => RefreshNotUndone
<1>1. StoreSpec => []StoreInv BY StoreCorrect, PTL DEF StoreInv
<1>2. StoreInv /\ [StoreNext]_storeVars =>
        [\A t \in Tokens : Live(t) /\ Live(t)' =>
           /\ session'[t].revision >= session[t].revision
           /\ session'[t].snap # session[t].snap => session'[t].revision > session[t].revision]_storeVars
  BY RefreshNotUndoneStep
<1> QED BY <1>1, <1>2, PTL DEF StoreSpec, RefreshNotUndone

-----------------------------------------------------------------------------
(* The inductive invariant.                                                *)

\* A copy c against what is stored for its token, whose owner is u.
Matches(stored, u, c) ==
    /\ c.user = u
    /\ stored # None => /\ c.revision <= stored.revision
                        /\ c.revision = stored.revision => c = stored

\* A request's and a permission change's copies against the sessions stored and
\* the owners of the tokens.
RequestCopies(q, stored, own) ==
    /\ q.pc # "idle" => /\ q.token # None
                        /\ q.seen # None
                        /\ Matches(stored[q.token], own[q.token], q.seen)
    /\ q.copy # None => q.pc # "idle" /\ Matches(stored[q.token], own[q.token], q.copy)
    /\ q.pc \in {"locked", "load", "write"} => q.copy # None

MutatorCopies(q, stored, own) ==
    \A t \in Tokens : q.copies[t] # None =>
        q.pc = "refresh" /\ Matches(stored[t], own[t], q.copies[t])

Copies ==
    /\ \A r \in Requests : RequestCopies(request[r], session, owner)
    /\ \A m \in Mutators : MutatorCopies(mutator[m], session, owner)
    /\ \A l \in Logins : login[l].pc # "idle" => login[l].user # None

CopiesInv == TypeOK /\ StoreInv /\ Copies

-----------------------------------------------------------------------------
(* Refinement of SessionStore.                                             *)

\* A copy keeps matching under every script and every expiry: a stored session
\* changes only together with its revision, and a freed token is never stored
\* for again.
LEMMA MatchesStep ==
    ASSUME StoreInv, [StoreNext]_storeVars, NEW t \in Tokens, NEW c \in Session,
           Matches(session[t], owner[t], c)
    PROVE  Matches(session'[t], owner'[t], c)
<1> USE DEF StoreInv, StoreTypeOK, Live
<1>0. owner[t] # None /\ None \notin Session
  BY NoneAssumption DEF Matches, Session
<1>1. ASSUME NEW x \in Tokens, NEW s \in Session, CreateSession(x, s)
      PROVE  Matches(session'[t], owner'[t], c)
  BY <1>0, <1>1 DEF CreateSession, Matches
<1>2. ASSUME NEW x \in Tokens, Live(x), RenewSession(x, session[x])
      PROVE  Matches(session'[t], owner'[t], c)
  BY <1>2 DEF RenewSession, StoreSession, Matches
<1>3. ASSUME NEW x \in Tokens, Live(x), NEW s \in Session,
             UpdateSessionPermissions(x, session[x], s.version, s.snap)
      PROVE  Matches(session'[t], owner'[t], c)
  <2>1. session[x] \in Session /\ session[x].revision \in Nat /\ c.revision \in Nat
    BY <1>3 DEF Session
  <2>2. /\ session' = [session EXCEPT ![x] = Updated(session[x], s.version, s.snap)]
        /\ owner' = owner
    BY <1>3 DEF UpdateSessionPermissions, StoreSession
  <2>3. Updated(session[x], s.version, s.snap).revision = session[x].revision + 1
    BY DEF Updated
  <2> QED BY <1>3, <2>1, <2>2, <2>3 DEF Matches
<1>4. ASSUME NEW x \in Tokens, DeleteSession(x) \/ ExpireSession(x)
      PROVE  Matches(session'[t], owner'[t], c)
  BY <1>4 DEF DeleteSession, ExpireSession, Matches
<1>5. ASSUME NEW us \in SUBSET Users,
             RevokeSessions(us) \/ AdvancePermissionVersion(us) \/ CleanIndex(us)
      PROVE  Matches(session'[t], owner'[t], c)
  BY <1>5 DEF RevokeSessions, AdvancePermissionVersion, CleanIndex, Matches
<1>6. ASSUME NEW u \in Users, ExpireIndex(u) \/ ExpireGeneration(u)
      PROVE  Matches(session'[t], owner'[t], c)
  BY <1>6 DEF ExpireIndex, ExpireGeneration, Matches
<1>7. CASE UNCHANGED storeVars
  BY <1>7 DEF storeVars
<1> QED
  BY <1>1, <1>2, <1>3, <1>4, <1>5, <1>6, <1>7 DEF StoreNext

\* A script that compares a matching copy and stores a session finds its copy stored.
LEMMA ReplacedIsStored ==
    ASSUME StoreInv, NEW t \in Tokens, NEW c \in Session, NEW v,
           Matches(session[t], owner[t], c), ReplaceResult(t, c, v) = "ok"
    PROVE  Live(t) /\ c = session[t]
  BY DEF ReplaceResult, Matches, Live

\* Every step of the protocol is a step of the store, or leaves it alone.
LEMMA StoreStep == CopiesInv /\ [Next]_vars => [StoreNext]_storeVars
<1> SUFFICES ASSUME CopiesInv, Next PROVE StoreNext \/ UNCHANGED storeVars
  BY DEF vars, storeVars
<1> USE DEF CopiesInv, TypeOK, StoreTypeOK
<1>1. ASSUME NEW l \in Logins, CreateToken(l) PROVE StoreNext \/ UNCHANGED storeVars
  <2>1. NewSession(l) \in Session
    BY <1>1 DEF NewSession, Copies, Session, Login, CreateToken
  <2>2. ASSUME NEW t \in Tokens, CreateSession(t, NewSession(l)) PROVE StoreNext
    BY <2>1, <2>2 DEF CreateSession, StoreNext
  <2> QED BY <1>1, <2>2 DEF CreateToken
<1>2. ASSUME NEW r \in Requests, WritePermissions(r) PROVE StoreNext \/ UNCHANGED storeVars
  <2> DEFINE q == request[r]
  <2>1. /\ q \in Request /\ q.pc = "write" /\ q.token \in Tokens /\ q.copy \in Session
        /\ Matches(session[q.token], owner[q.token], q.copy)
    BY <1>2 DEF WritePermissions, Copies, RequestCopies, Request
  <2>2. ASSUME UpdateSessionPermissions(q.token, q.copy, q.version, q.snap) PROVE StoreNext
    <3>1. Live(q.token) /\ q.copy = session[q.token]
      BY <2>1, <2>2, ReplacedIsStored DEF UpdateSessionPermissions
    <3>2. session'[q.token] = Updated(q.copy, q.version, q.snap)
      BY <2>1, <2>2 DEF UpdateSessionPermissions, StoreSession
    <3>3. session'[q.token] \in Session /\ session'[q.token].version = q.version
          /\ session'[q.token].snap = q.snap
      BY <2>1, <3>2 DEF Updated, Session, Request
    <3> QED BY <2>1, <2>2, <3>1, <3>3 DEF StoreNext
  <2> QED BY <1>2, <2>2 DEF WritePermissions
<1>3. ASSUME NEW r \in Requests, RenewToken(r) PROVE StoreNext \/ UNCHANGED storeVars
  <2> DEFINE q == request[r]
             held == IF q.copy = None THEN q.seen ELSE q.copy
  <2>1. /\ q.token \in Tokens /\ held \in Session
        /\ Matches(session[q.token], owner[q.token], held)
    BY <1>3 DEF RenewToken, Copies, RequestCopies, Request
  <2>2. ASSUME RenewSession(q.token, held) PROVE StoreNext
    <3> HIDE DEF held
    <3>1. Live(q.token) /\ held = session[q.token]
      BY <2>1, <2>2, ReplacedIsStored DEF RenewSession
    <3> QED BY <2>1, <2>2, <3>1 DEF StoreNext
  <2> QED BY <1>3, <2>2 DEF RenewToken
<1>4. ASSUME NEW m \in Mutators, NEW t \in Tokens, RefreshSession(m, t)
      PROVE  StoreNext \/ UNCHANGED storeVars
  <2> DEFINE c == mutator[m].copies[t]
             v == mutator[m].versions[c.user]
             n == mutator[m].snaps[c.user]
  <2>1. /\ c \in Session /\ Matches(session[t], owner[t], c)
        /\ v \in Nat /\ n \in Snapshot
    BY <1>4 DEF RefreshSession, Copies, MutatorCopies, Mutator, Session
  <2>2. ASSUME UpdateSessionPermissions(t, c, v, n) PROVE StoreNext
    <3> HIDE DEF c, v, n
    <3>1. Live(t) /\ c = session[t]
      BY <2>1, <2>2, ReplacedIsStored DEF UpdateSessionPermissions
    <3>2. session'[t] = Updated(c, v, n)
      BY <2>1, <2>2 DEF UpdateSessionPermissions, StoreSession
    <3>3. session'[t] \in Session /\ session'[t].version = v /\ session'[t].snap = n
      BY <2>1, <3>2 DEF Updated, Session
    <3> QED BY <2>1, <2>2, <3>1, <3>3 DEF StoreNext
  <2> QED BY <1>4, <2>2 DEF RefreshSession
<1>5. ASSUME NEW batch \in SUBSET Users, RevokeBatch(batch) PROVE StoreNext
  BY <1>5 DEF RevokeBatch, StoreNext
<1>6. ASSUME NEW r \in Requests, CompensateRequest(r) PROVE StoreNext
  <2>1. UserOf(r) \in Users
    BY <1>6, NoneAssumption
       DEF CompensateRequest, UserOf, Copies, RequestCopies, Request, Matches, Session
  <2> QED BY <1>5, <1>6, <2>1 DEF CompensateRequest
<1>7. ASSUME NEW m \in Mutators, CompensateMutation(m) PROVE StoreNext
  BY <1>5, <1>7 DEF CompensateMutation, Mutator
<1>8. ASSUME Cleanup PROVE StoreNext
  BY <1>5, <1>8 DEF Cleanup
<1>9. ASSUME NEW m \in Mutators, AdvanceVersions(m) PROVE StoreNext
  BY <1>9 DEF AdvanceVersions, Mutator, StoreNext
<1>10. ASSUME NEW m \in Mutators, CollectSessions(m) PROVE StoreNext \/ UNCHANGED storeVars
  BY <1>10 DEF CollectSessions, Mutator, StoreNext
<1>11. ASSUME NEW r \in Requests, CheckGeneration(r) PROVE StoreNext \/ UNCHANGED storeVars
  BY <1>11 DEF CheckGeneration, Copies, RequestCopies, Request, StoreNext
<1>12. ASSUME NEW w \in Revokers, NEW us \in SUBSET Users, RevokeAccounts(w, us) PROVE StoreNext
  <2>1. PICK part \in SUBSET us : RevokeSessions(part)
    BY <1>12 DEF RevokeAccounts
  <2> QED BY <2>1 DEF StoreNext
<1>13. ASSUME NEW t \in Tokens, Logout(t) PROVE StoreNext
  BY <1>13 DEF Logout, StoreNext
<1>14. ASSUME Expire PROVE StoreNext
  BY <1>14 DEF Expire, StoreNext
<1>15. ASSUME NEW l \in Logins, LoginStep(l), ~ CreateToken(l) PROVE UNCHANGED storeVars
  BY <1>15 DEF LoginStep, ReadGeneration, ReadUser, LoadMenus, ReadPermissionVersion
<1>16. ASSUME NEW r \in Requests, RequestStep(r), ~ CheckGeneration(r),
              ~ WritePermissions(r), ~ CompensateRequest(r), ~ RenewToken(r)
       PROVE  UNCHANGED storeVars
  BY <1>16 DEF RequestStep, Receive, CheckPending, CheckVersion, LockStale, ReadVersionLocked,
               LoadSnapshot, Reread, StartInfo, Finish
<1>17. ASSUME NEW m \in Mutators, MutatorStep(m), ~ AdvanceVersions(m), ~ CollectSessions(m),
              ~ (\E t \in Tokens : RefreshSession(m, t)), ~ CompensateMutation(m)
       PROVE  UNCHANGED storeVars
  BY <1>17 DEF MutatorStep, BeginMutation, CommitMutation, FinishMutation
<1>18. ASSUME NEW w \in Revokers, WriteAccounts(w) PROVE UNCHANGED storeVars
  BY <1>18 DEF WriteAccounts
<1>19. ASSUME Crash PROVE UNCHANGED storeVars
  BY <1>19 DEF Crash
<1> QED
  BY <1>1, <1>2, <1>3, <1>4, <1>6, <1>7, <1>8, <1>9, <1>10, <1>11, <1>12, <1>13, <1>14,
     <1>15, <1>16, <1>17, <1>18, <1>19 DEF Next, RevokerStep

-----------------------------------------------------------------------------
(* Type correctness.                                                       *)

LEMMA RevokeBatchType ==
    ASSUME TypeOK, NEW batch \in SUBSET Users, RevokeBatch(batch)
    PROVE  pending' \in SUBSET Users /\ faults' \in Nat
  BY DEF TypeOK, RevokeBatch, Fault, NoFault

\* What the copies invariant says of the types of the fields in use.
LEMMA CopiesType ==
    ASSUME CopiesInv
    PROVE  /\ \A l \in Logins : login[l].pc # "idle" => login[l].user \in Users
           /\ \A r \in Requests : request[r].pc # "idle" =>
                /\ request[r].token \in Tokens
                /\ request[r].seen \in Session
                /\ UserOf(r) \in Users
           /\ \A r \in Requests :
                request[r].pc \in {"locked", "load", "write"} => request[r].copy \in Session
<1> USE DEF CopiesInv, TypeOK
<1>1. \A l \in Logins : login[l].pc # "idle" => login[l].user \in Users
  BY DEF Copies, Login
<1>2. ASSUME NEW r \in Requests, request[r].pc # "idle"
      PROVE  request[r].token \in Tokens /\ request[r].seen \in Session /\ UserOf(r) \in Users
  BY <1>2 DEF Copies, RequestCopies, Request, Matches, UserOf, Session
<1>3. ASSUME NEW r \in Requests, request[r].pc \in {"locked", "load", "write"}
      PROVE  request[r].copy \in Session
  BY <1>3 DEF Copies, RequestCopies, Request
<1> QED BY <1>1, <1>2, <1>3

LEMMA LoginType ==
    ASSUME CopiesInv, StoreTypeOK', NEW l \in Logins, LoginStep(l)
    PROVE  TypeOK'
<1> USE DEF CopiesInv, TypeOK, locks
<1> DEFINE q == login[l]
           u == q.user
<1>1. /\ q \in Login
      /\ q.pc # "idle" => /\ u \in Users
                          /\ database[u].assigned \in Nat
                          /\ database[u].granted \in Nat
                          /\ permVersion[u] \in Nat
  BY CopiesType DEF Account, StoreTypeOK
<1>2. NoLogin \in Login
  BY DEF Login, NoLogin, NoSnap, LoginPC, Snapshot
<1>3. ASSUME NEW v \in Users, ReadGeneration(l, v) PROVE TypeOK'
  <2>1. generation[v] \in Nat /\ database[v].credential \in Nat
    BY DEF StoreTypeOK, Account
  <2>2. [NoLogin EXCEPT !.pc = "user", !.user = v, !.generation = generation[v],
                        !.credential = database[v].credential,
                        !.window = \E w \in Revokers : v \in revoker[w].users] \in Login
    BY <2>1 DEF Login, NoLogin, NoSnap, LoginPC, Snapshot
  <2> QED BY <1>3, <2>2 DEF ReadGeneration
<1>4. ASSUME ReadUser(l) PROVE TypeOK'
  <2>1. [q EXCEPT !.pc = "lock", !.snap.assigned = database[u].assigned] \in Login
    BY <1>1, <1>4 DEF ReadUser, Login, LoginPC, Snapshot
  <2> QED BY <1>2, <1>4, <2>1 DEF ReadUser
<1>5. ASSUME LoadMenus(l) PROVE TypeOK'
  <2>1. [q EXCEPT !.pc = "version", !.snap.granted = database[u].granted] \in Login
    BY <1>1, <1>5 DEF LoadMenus, Login, LoginPC, Snapshot
  <2> QED BY <1>5, <2>1 DEF LoadMenus
<1>6. ASSUME ReadPermissionVersion(l) PROVE TypeOK'
  <2>1. [q EXCEPT !.pc = "create", !.version = permVersion[u]] \in Login
    BY <1>1, <1>6 DEF ReadPermissionVersion, Login, LoginPC
  <2> QED BY <1>2, <1>6, <2>1 DEF ReadPermissionVersion, Fault, NoFault
<1>7. ASSUME CreateToken(l) PROVE TypeOK'
  <2>1. [credential |-> q.credential, window |-> q.window,
         stale |-> q.snap # SnapshotOf(u)] \in Birth
    BY Zenon, <1>1 DEF Login, Birth
  <2>2. faults' \in Nat
    BY <1>7 DEF CreateToken, Fault, NoFault
  <2> QED BY <1>2, <1>7, <2>1, <2>2 DEF CreateToken
<1> QED BY <1>3, <1>4, <1>5, <1>6, <1>7 DEF LoginStep

LEMMA GotoType ==
    ASSUME TypeOK, NEW r \in Requests, NEW pc \in RequestPC, Goto(r, pc)
    PROVE  request' \in [Requests -> Request]
<1>1. [request[r] EXCEPT !.pc = pc] \in Request
  BY DEF TypeOK, Request
<1> QED BY <1>1 DEF TypeOK, Goto

LEMMA LeaveType ==
    ASSUME TypeOK, NEW r \in Requests, Leave(r)
    PROVE  request' \in [Requests -> Request]
<1>1. NoRequest \in Request
  BY DEF Request, NoRequest, NoSnap, RequestPC, Snapshot
<1> QED BY <1>1 DEF TypeOK, Leave

LEMMA SnapshotOfType ==
    ASSUME TypeOK, NEW u \in Users
    PROVE  SnapshotOf(u) \in Snapshot
  BY DEF TypeOK, Account, SnapshotOf, Snapshot

LEMMA RequestType ==
    ASSUME CopiesInv, StoreTypeOK', NEW r \in Requests, RequestStep(r)
    PROVE  TypeOK'
<1> USE DEF CopiesInv, TypeOK, locks
<1> DEFINE q == request[r]
           stored == session[q.token]
           ok == request' \in [Requests -> Request]
<1>1. /\ q \in Request
      /\ q.pc # "idle" => /\ q.token \in Tokens
                          /\ q.seen \in Session
                          /\ UserOf(r) \in Users
                          /\ permVersion[UserOf(r)] \in Nat
                          /\ SnapshotOf(UserOf(r)) \in Snapshot
                          /\ Live(q.token) => stored \in Session
      /\ q.pc \in {"locked", "load", "write"} =>
           q.copy \in Session /\ q.copy.user \in Users /\ permVersion[q.copy.user] \in Nat
  BY CopiesType, SnapshotOfType DEF StoreTypeOK, Live, Session
<1>2. NoRequest \in Request
  BY DEF Request, NoRequest, NoSnap, RequestPC, Snapshot
<1>3. ASSUME NEW t \in Tokens, Receive(r, t) PROVE TypeOK'
  <2>1. [NoRequest EXCEPT !.pc = "generation", !.token = t, !.seen = session[t]] \in Request
    BY <1>2, <1>3 DEF Receive, Request, RequestPC, StoreTypeOK
  <2> QED BY <1>3, <2>1 DEF Receive
<1>4. ASSUME CheckGeneration(r) PROVE TypeOK'
  <2>1. ok BY <1>4, GotoType, LeaveType DEF CheckGeneration, RequestPC
  <2> QED BY <1>4, <2>1 DEF CheckGeneration, Fault, NoFault
<1>5. ASSUME CheckPending(r) PROVE TypeOK'
  <2>1. ok BY <1>5, GotoType, LeaveType DEF CheckPending, RequestPC
  <2> QED BY <1>5, <2>1 DEF CheckPending
<1>6. ASSUME CheckVersion(r) PROVE TypeOK'
  <2>1. ok BY <1>6, GotoType, LeaveType DEF CheckVersion, RequestPC
  <2> QED BY <1>6, <2>1 DEF CheckVersion, Fault, NoFault
<1>7. ASSUME LockStale(r) PROVE TypeOK'
  <2>1. Live(q.token) => [q EXCEPT !.pc = "locked", !.copy = stored] \in Request
    BY <1>1, <1>7 DEF LockStale, Request, RequestPC
  <2>2. ok BY <1>7, <2>1, LeaveType DEF LockStale
  <2> QED BY <1>7, <2>2 DEF LockStale, Fault, NoFault
<1>8. ASSUME ReadVersionLocked(r) PROVE TypeOK'
  <2>1. [q EXCEPT !.pc = "accepted", !.seen = q.copy] \in Request
    BY <1>1, <1>8 DEF ReadVersionLocked, Request, RequestPC
  <2>2. [q EXCEPT !.pc = "load", !.version = permVersion[q.copy.user]] \in Request
    BY <1>1, <1>8 DEF ReadVersionLocked, Request, RequestPC
  <2>3. ok BY <1>8, <2>1, <2>2, LeaveType DEF ReadVersionLocked
  <2> QED BY <1>8, <2>3 DEF ReadVersionLocked, Fault, NoFault
<1>9. ASSUME LoadSnapshot(r) PROVE TypeOK'
  <2>1. [q EXCEPT !.pc = "write", !.snap = SnapshotOf(UserOf(r)),
                  !.version = IF q.info THEN permVersion[UserOf(r)] ELSE q.version] \in Request
    BY <1>1, <1>9 DEF LoadSnapshot, Request, RequestPC
  <2>2. CASE Goto(r, "compensate")
    BY <1>9, <2>2, GotoType DEF LoadSnapshot, RequestPC, Fault, NoFault
  <2> DEFINE read == [q EXCEPT !.pc = "write", !.snap = SnapshotOf(UserOf(r)),
                               !.version = IF q.info THEN permVersion[UserOf(r)] ELSE q.version]
  <2>3. CASE ~ Goto(r, "compensate")
    <3>1. request' = [request EXCEPT ![r] = read]
      BY <1>9, <2>3 DEF LoadSnapshot
    <3> HIDE DEF read
    <3>2. request' \in [Requests -> Request]
      BY <2>1, <3>1 DEF read
    <3> QED BY <1>9, <2>3, <3>2 DEF LoadSnapshot, Fault, NoFault
  <2> QED BY <2>2, <2>3
<1>10. ASSUME WritePermissions(r) PROVE TypeOK'
  <2>1. Updated(q.copy, q.version, q.snap) \in Session
    BY <1>1, <1>10 DEF WritePermissions, Request, Updated, Session
  <2>2. [q EXCEPT !.seen = Updated(q.copy, q.version, q.snap), !.copy = None,
                  !.pc = IF q.info THEN "handling" ELSE "accepted"] \in Request
    BY <1>1, <2>1 DEF Request, RequestPC
  <2>3. ok BY <1>10, <2>2, GotoType DEF WritePermissions, RequestPC
  <2>4. pending' \in SUBSET Users /\ faults' \in Nat
    BY <1>10 DEF WritePermissions, Fault, NoFault
  <2> QED BY <1>10, <2>3, <2>4 DEF WritePermissions
<1>11. ASSUME Reread(r) PROVE TypeOK'
  <2>1. q.tries + 1 \in Nat
    BY <1>1 DEF Request
  <2>2. Live(q.token) =>
          [q EXCEPT !.pc = "write", !.copy = stored, !.snap = SnapshotOf(UserOf(r)),
                    !.version = permVersion[UserOf(r)], !.tries = q.tries + 1] \in Request
    BY <1>1, <1>11, <2>1 DEF Reread, Request, RequestPC
  <2>3. ok
    <3>1. CASE Goto(r, "compensate") BY <3>1, GotoType DEF RequestPC
    <3>2. CASE ~ Goto(r, "compensate")
      <4>1. Live(q.token) /\ request' = [request EXCEPT ![r] =
                          [q EXCEPT !.pc = "write", !.copy = stored, !.snap = SnapshotOf(UserOf(r)),
                                    !.version = permVersion[UserOf(r)], !.tries = q.tries + 1]]
        BY <1>11, <3>2 DEF Reread
      <4> QED BY <2>2, <4>1
    <3> QED BY <3>1, <3>2
  <2> QED BY <1>11, <2>3 DEF Reread, Fault, NoFault
<1>12. ASSUME CompensateRequest(r) PROVE TypeOK'
  <2>1. ok BY <1>12, LeaveType DEF CompensateRequest
  <2>2. pending' \in SUBSET Users /\ faults' \in Nat
    BY <1>1, <1>12, RevokeBatchType DEF CompensateRequest
  <2> QED BY <1>12, <2>1, <2>2 DEF CompensateRequest
<1>13. ASSUME RenewToken(r) PROVE TypeOK'
  <2> DEFINE held == IF q.copy = None THEN q.seen ELSE q.copy
  <2>1. held \in Session
    BY <1>1, <1>13 DEF RenewToken, Request
  <2>2. [q EXCEPT !.pc = "handling", !.seen = held, !.copy = None, !.tries = 1] \in Request
    BY <1>1, <2>1 DEF Request, RequestPC
  <2>0. q.tries + 1 \in Nat /\ stored \in Session \cup {None}
    BY <1>1, <1>13 DEF RenewToken, Request, StoreTypeOK
  <2>3. [q EXCEPT !.copy = stored, !.tries = q.tries + 1] \in Request
    BY <1>1, <2>0 DEF Request
  <2>4. [q EXCEPT !.pc = "handling", !.copy = None, !.tries = 1] \in Request
    BY <1>1 DEF Request, RequestPC
  <2>5. \/ request' = [request EXCEPT ![r] =
                         [q EXCEPT !.pc = "handling", !.seen = held, !.copy = None, !.tries = 1]]
        \/ request' = [request EXCEPT ![r] = [q EXCEPT !.copy = stored, !.tries = q.tries + 1]]
        \/ request' = [request EXCEPT ![r] =
                         [q EXCEPT !.pc = "handling", !.copy = None, !.tries = 1]]
    <3> HIDE DEF held
    <3> QED BY <1>13 DEF RenewToken, held
  <2>6. ok
    BY <2>2, <2>3, <2>4, <2>5
  <2> QED BY <1>13, <2>6 DEF RenewToken, Fault, NoFault
<1>14. ASSUME StartInfo(r) PROVE TypeOK'
  <2>1. [q EXCEPT !.pc = "load", !.copy = q.seen, !.tries = 1, !.info = TRUE] \in Request
    BY <1>1 DEF Request, RequestPC
  <2> QED BY <1>14, <2>1 DEF StartInfo
<1>15. ASSUME Finish(r) PROVE TypeOK'
  <2>1. ok BY <1>15, LeaveType DEF Finish
  <2> QED BY <1>15, <2>1 DEF Finish
<1> QED
  BY <1>3, <1>4, <1>5, <1>6, <1>7, <1>8, <1>9, <1>10, <1>11, <1>12, <1>13, <1>14, <1>15
     DEF RequestStep

LEMMA ReleasedType ==
    ASSUME TypeOK, NEW m \in Mutators, Released(m)
    PROVE  /\ mutator' \in [Mutators -> Mutator]
           /\ permissionRefreshMu' = None
           /\ userWriteMu' \in {userWriteMu, None}
<1>1. NoMutator \in Mutator
  BY DEF Mutator, NoMutator, MutatorPC, NoSnap, Snapshot
<1> QED BY <1>1 DEF TypeOK, Released

LEMMA MutatorType ==
    ASSUME CopiesInv, StoreTypeOK', NEW m \in Mutators, MutatorStep(m)
    PROVE  TypeOK'
<1> USE DEF CopiesInv, TypeOK, locks
<1> DEFINE q == mutator[m]
           ok == mutator' \in [Mutators -> Mutator]
<1>1. q \in Mutator
  OBVIOUS
<1>2. ASSUME NEW us \in SUBSET Users, NEW kind \in Kinds, BeginMutation(m, us, kind) PROVE TypeOK'
  <2>1. [q EXCEPT !.pc = "advance", !.users = us, !.kind = kind] \in Mutator
    BY <1>1, KindsAssumption DEF Mutator, MutatorPC
  <2> QED BY <1>2, <2>1 DEF BeginMutation
<1>3. ASSUME AdvanceVersions(m) PROVE TypeOK'
  <2>1. [q EXCEPT !.pc = "commit", !.versions = permVersion'] \in Mutator
    BY <1>1 DEF Mutator, MutatorPC, StoreTypeOK
  <2> QED BY <1>3, <2>1, ReleasedType DEF AdvanceVersions, Fault, NoFault
<1>4. ASSUME CommitMutation(m) PROVE TypeOK'
  <2>1. [q EXCEPT !.pc = "collect"] \in Mutator
    BY <1>1 DEF Mutator, MutatorPC
  <2>2. ASSUME NEW u \in Users
        PROVE  /\ [database[u] EXCEPT !.assigned = @ + 1] \in Account
               /\ [database[u] EXCEPT !.granted = @ + 1] \in Account
    BY DEF Account
  <2>3. Changed(q.users, q.kind) \in [Users -> Account]
    BY <2>2 DEF Changed
  <2>4. database' \in [Users -> Account]
    BY <1>4, <2>3 DEF CommitMutation
  <2> QED BY <1>4, <2>1, <2>4, ReleasedType DEF CommitMutation, Fault, NoFault
<1>5. ASSUME CollectSessions(m) PROVE TypeOK'
  <2> DEFINE snaps == [u \in Users |-> SnapshotOf(u)]
             copies == [t \in Tokens |->
                          IF \E u \in q.users : t \in index[u] THEN session[t] ELSE None]
  <2>1. snaps \in [Users -> Snapshot] /\ copies \in [Tokens -> Session \cup {None}]
    BY SnapshotOfType DEF StoreTypeOK
  <2>2. [q EXCEPT !.pc = "refresh", !.snaps = snaps, !.copies = copies] \in Mutator
    <3> HIDE DEF snaps, copies
    <3> QED BY <1>1, <2>1 DEF Mutator, MutatorPC
  <2>3. q.users \in SUBSET Users /\ Online(q.users) \in SUBSET Users
    BY <1>1 DEF Online, Mutator
  <2>4. /\ [q EXCEPT !.pc = "compensate", !.failed = Online(q.users)] \in Mutator
        /\ [q EXCEPT !.pc = "compensate", !.failed = q.users] \in Mutator
    BY <1>1, <2>3 DEF Mutator, MutatorPC
  <2>5. ok
    BY <1>5, <2>2, <2>4 DEF CollectSessions
  <2>6. pending' \in SUBSET Users /\ faults' \in Nat
    BY <1>5, <2>3 DEF CollectSessions, Fault, NoFault
  <2> QED BY <1>5, <2>5, <2>6 DEF CollectSessions
<1>6. ASSUME NEW t \in Tokens, RefreshSession(m, t) PROVE TypeOK'
  <2> DEFINE u == q.copies[t].user
             one == [q.copies EXCEPT ![t] = None]
             all == [x \in Tokens |-> IF x \in Unwritten(m, u) THEN None ELSE q.copies[x]]
  <2>1. /\ q.copies \in [Tokens -> Session \cup {None}]
        /\ u \in Users
        /\ one \in [Tokens -> Session \cup {None}]
        /\ all \in [Tokens -> Session \cup {None}]
    BY <1>1, <1>6 DEF RefreshSession, Mutator, Session
  <2>2. [q EXCEPT !.copies = one] \in Mutator
    <3> HIDE DEF one
    <3> QED BY <1>1, <2>1 DEF Mutator
  <2>3. [q EXCEPT !.failed = q.failed \cup {u}, !.copies = all] \in Mutator
    <3> HIDE DEF all
    <3> QED BY <1>1, <2>1 DEF Mutator
  <2>4. \/ mutator' = [mutator EXCEPT ![m].copies[t] = None]
        \/ mutator' = [mutator EXCEPT ![m] =
                         [q EXCEPT !.failed = q.failed \cup {u}, !.copies = all]]
    BY <1>6 DEF RefreshSession
  <2>5. ok
    BY <2>2, <2>3, <2>4
  <2> QED BY <1>6, <2>5 DEF RefreshSession, Fault, NoFault
<1>7. ASSUME FinishMutation(m) PROVE TypeOK'
  <2>1. [q EXCEPT !.pc = "compensate"] \in Mutator
    BY <1>1 DEF Mutator, MutatorPC
  <2> QED BY <1>7, <2>1, ReleasedType DEF FinishMutation
<1>8. ASSUME CompensateMutation(m) PROVE TypeOK'
  <2>1. pending \cup q.failed \in SUBSET Users
    BY <1>1 DEF Mutator
  <2> QED BY <1>8, <2>1, ReleasedType, RevokeBatchType DEF CompensateMutation
<1> QED
  BY <1>2, <1>3, <1>4, <1>5, <1>6, <1>7, <1>8 DEF MutatorStep

LEMMA RevokerType ==
    ASSUME CopiesInv, StoreTypeOK', NEW w \in Revokers, RevokerStep(w)
    PROVE  TypeOK'
<1> USE DEF CopiesInv, TypeOK, locks
<1>1. ASSUME NEW us \in SUBSET Users, RevokeAccounts(w, us) PROVE TypeOK'
  <2>1. [pc |-> "revoked", users |-> us] \in Revoker
    BY DEF Revoker
  <2> QED BY <1>1, <2>1 DEF RevokeAccounts, Fault, NoFault
<1>2. ASSUME WriteAccounts(w) PROVE TypeOK'
  <2>1. NoRevoker \in Revoker
    BY DEF Revoker, NoRevoker
  <2>2. \A u \in Users : [database[u] EXCEPT !.credential = @ + 1] \in Account
    BY DEF Account
  <2>3. database' \in [Users -> Account]
    BY <1>2, <2>2 DEF WriteAccounts
  <2> QED BY <1>2, <2>1, <2>3 DEF WriteAccounts, Fault, NoFault
<1> QED BY <1>1, <1>2 DEF RevokerStep

LEMMA CrashType ==
    ASSUME CopiesInv, StoreTypeOK', Crash
    PROVE  TypeOK'
<1>1. /\ NoRequest \in Request /\ NoLogin \in Login
      /\ NoMutator \in Mutator /\ NoRevoker \in Revoker
  BY DEF Request, NoRequest, RequestPC, Login, NoLogin, LoginPC, Mutator, NoMutator, MutatorPC,
         Revoker, NoRevoker, NoSnap, Snapshot
<1> QED BY <1>1 DEF CopiesInv, TypeOK, Crash

LEMMA TypeStep ==
    ASSUME CopiesInv, StoreTypeOK', [Next]_vars
    PROVE  TypeOK'
<1> USE DEF CopiesInv
<1>1. ASSUME Cleanup PROVE TypeOK'
  BY <1>1, RevokeBatchType DEF Cleanup, TypeOK, locks, handlers
<1>2. ASSUME NEW t \in Tokens, Logout(t) PROVE TypeOK'
  BY <1>2 DEF Logout, TypeOK, locks, handlers
<1>3. ASSUME Expire PROVE TypeOK'
  BY <1>3 DEF Expire, TypeOK, locks, handlers
<1>4. CASE UNCHANGED vars
  BY <1>4 DEF vars, TypeOK, locks, handlers
<1> QED
  BY <1>1, <1>2, <1>3, <1>4, LoginType, RequestType, MutatorType, RevokerType, CrashType DEF Next

-----------------------------------------------------------------------------
(* A handler's state changes by its own steps and by a crash only.         *)

LEMMA LoginFrame ==
    ASSUME TypeOK, NEW l \in Logins, LoginStep(l)
    PROVE  /\ \A k \in Logins : k # l => login'[k] = login[k]
           /\ UNCHANGED <<request, mutator, database>>
  BY DEF TypeOK, LoginStep, ReadGeneration, ReadUser, LoadMenus, ReadPermissionVersion, CreateToken

LEMMA RequestFrame ==
    ASSUME TypeOK, NEW r \in Requests, RequestStep(r)
    PROVE  /\ \A k \in Requests : k # r => request'[k] = request[k]
           /\ UNCHANGED <<login, mutator, database>>
  BY DEF TypeOK, RequestStep, Receive, CheckGeneration, CheckPending, CheckVersion, LockStale,
     ReadVersionLocked, LoadSnapshot, WritePermissions, Reread, CompensateRequest, RenewToken,
     StartInfo, Finish, Goto, Leave

LEMMA MutatorFrame ==
    ASSUME TypeOK, NEW m \in Mutators, MutatorStep(m)
    PROVE  /\ \A k \in Mutators : k # m => mutator'[k] = mutator[k]
           /\ UNCHANGED <<login, request>>
  BY DEF TypeOK, MutatorStep, BeginMutation, AdvanceVersions, CommitMutation, CollectSessions,
     RefreshSession, FinishMutation, CompensateMutation, Released

\* Everything else that can happen, but a crash.
OtherStep ==
    \/ \E w \in Revokers : RevokerStep(w)
    \/ \E t \in Tokens : Logout(t)
    \/ Cleanup
    \/ Expire
    \/ UNCHANGED vars

LEMMA OtherFrame == OtherStep => UNCHANGED <<login, request, mutator, permissionRefreshMu>>
  BY DEF OtherStep, RevokerStep, RevokeAccounts, WriteAccounts, Logout, Cleanup, Expire,
     handlers, locks, vars

LEMMA NextSteps ==
    [Next]_vars =>
      \/ \E l \in Logins : LoginStep(l)
      \/ \E r \in Requests : RequestStep(r)
      \/ \E m \in Mutators : MutatorStep(m)
      \/ OtherStep
      \/ Crash
  BY DEF Next, OtherStep

LEMMA HandlersFrame ==
    ASSUME TypeOK, [Next]_vars
    PROVE  /\ \A l \in Logins : LoginStep(l) \/ Crash \/ login'[l] = login[l]
           /\ \A r \in Requests : RequestStep(r) \/ Crash \/ request'[r] = request[r]
           /\ \A m \in Mutators : MutatorStep(m) \/ Crash \/ mutator'[m] = mutator[m]
  BY NextSteps, LoginFrame, RequestFrame, MutatorFrame, OtherFrame

-----------------------------------------------------------------------------
(* Copies is inductive.                                                    *)

\* The handlers that take no part in a step keep what they know.
LEMMA CopiesKept ==
    ASSUME CopiesInv, [StoreNext]_storeVars
    PROVE  /\ \A r \in Requests : RequestCopies(request[r], session', owner')
           /\ \A m \in Mutators : MutatorCopies(mutator[m], session', owner')
<1> USE DEF CopiesInv, TypeOK
<1>1. \A t \in Tokens, c \in Session :
        Matches(session[t], owner[t], c) => Matches(session'[t], owner'[t], c)
  BY MatchesStep
<1>2. ASSUME NEW r \in Requests PROVE RequestCopies(request[r], session', owner')
  BY <1>1 DEF Copies, RequestCopies, Request
<1>3. ASSUME NEW m \in Mutators PROVE MutatorCopies(mutator[m], session', owner')
  BY <1>1 DEF Copies, MutatorCopies, Mutator
<1> QED BY <1>2, <1>3

\* Reading a session yields a copy that matches it.
LEMMA StoredMatches ==
    ASSUME StoreInv, NEW t \in Tokens, Live(t)
    PROVE  Matches(session[t], owner[t], session[t])
  BY DEF StoreInv, StoreTypeOK, SessionsIndexed, Live, Matches, Session

\* What a renewal leaves a request with.
LEMMA RenewMoves ==
    ASSUME TypeOK, NEW r \in Requests, RenewToken(r)
    PROVE  /\ request'[r].pc \in {"handling", "accepted"}
           /\ request'[r].seen \in {request[r].seen, request[r].copy}
           /\ request[r].copy = None => request'[r].seen = request[r].seen
           /\ request'[r].copy \in {session[request[r].token], None}
           /\ request'[r].token = request[r].token
<1> DEFINE q == request[r]
           held == IF q.copy = None THEN q.seen ELSE q.copy
           Goal == /\ request'[r].pc \in {"handling", "accepted"}
                   /\ request'[r].seen \in {q.seen, held}
                   /\ request'[r].copy \in {session[q.token], None}
                   /\ request'[r].token = q.token
<1>1. q \in Request /\ q.pc = "accepted" /\ request \in [Requests -> Request]
  BY DEF TypeOK, RenewToken
<1>2. ASSUME request'[r] = [q EXCEPT !.pc = "handling", !.seen = held, !.copy = None, !.tries = 1]
      PROVE  Goal
  <2> HIDE DEF held
  <2> QED BY <1>1, <1>2 DEF Request
<1>3. ASSUME request'[r] = [q EXCEPT !.copy = session[q.token], !.tries = q.tries + 1] PROVE Goal
  BY <1>1, <1>3 DEF Request
<1>4. ASSUME request'[r] = [q EXCEPT !.pc = "handling", !.copy = None, !.tries = 1] PROVE Goal
  BY <1>1, <1>4 DEF Request
<1>5. Goal
  <2> HIDE DEF Goal
  <2> QED BY <1>1, <1>2, <1>3, <1>4 DEF RenewToken
<1> QED BY <1>5

LEMMA RequestCopiesStep ==
    ASSUME CopiesInv, [StoreNext]_storeVars, NEW r \in Requests, RequestStep(r)
    PROVE  RequestCopies(request'[r], session', owner')
<1> USE DEF CopiesInv, TypeOK
<1> DEFINE q == request[r]
           Goal == RequestCopies(request'[r], session', owner')
<1>1. /\ q \in Request
      /\ RequestCopies(q, session, owner)
      /\ RequestCopies(q, session', owner')
  BY CopiesKept DEF Copies
<1>2. \A t \in Tokens : Live(t) =>
        session[t] # None /\ Matches(session'[t], owner'[t], session[t])
  BY StoredMatches, MatchesStep DEF Live, StoreTypeOK
<1>3. RequestCopies(NoRequest, session', owner')
  BY DEF RequestCopies, NoRequest
<1>4. ASSUME NEW pc, Goto(r, pc), q.pc # "idle", pc # "idle",
             pc \in {"locked", "load", "write"} => q.copy # None
      PROVE  Goal
  <2>1. request'[r] = [q EXCEPT !.pc = pc]
    BY <1>4 DEF Goto
  <2>2. /\ request'[r].pc = pc /\ request'[r].token = q.token
        /\ request'[r].seen = q.seen /\ request'[r].copy = q.copy
    BY <1>1, <2>1 DEF Request
  <2> QED BY <1>1, <1>4, <2>2 DEF RequestCopies
<1>5. ASSUME Leave(r) PROVE Goal
  <2>1. request'[r] = NoRequest
    BY <1>5 DEF Leave
  <2> QED BY <1>3, <2>1
<1>6. ASSUME NEW t \in Tokens, Receive(r, t) PROVE Goal
  <2>1. /\ request'[r].pc = "generation" /\ request'[r].token = t
        /\ request'[r].seen = session[t] /\ request'[r].copy = None
    BY <1>6 DEF Receive, NoRequest
  <2> QED BY <1>2, <1>6, <2>1, NoneAssumption DEF Receive, RequestCopies
<1>7. ASSUME CheckGeneration(r) PROVE Goal
  BY <1>4, <1>5, <1>7 DEF CheckGeneration
<1>8. ASSUME CheckPending(r) PROVE Goal
  BY <1>4, <1>5, <1>8 DEF CheckPending
<1>9. ASSUME CheckVersion(r) PROVE Goal
  BY <1>4, <1>5, <1>9 DEF CheckVersion
<1>10. ASSUME LockStale(r) PROVE Goal
  <2>1. ASSUME Live(q.token), request'[r] = [q EXCEPT !.pc = "locked", !.copy = session[q.token]]
        PROVE  Goal
    BY <1>1, <1>2, <1>10, <2>1 DEF LockStale, RequestCopies, Request
  <2> QED BY <1>5, <1>10, <2>1 DEF LockStale
<1>11. ASSUME ReadVersionLocked(r) PROVE Goal
  <2>1. ASSUME request'[r] = [q EXCEPT !.pc = "accepted", !.seen = q.copy] PROVE Goal
    BY <1>1, <1>11, <2>1 DEF ReadVersionLocked, RequestCopies, Request
  <2>2. ASSUME request'[r] = [q EXCEPT !.pc = "load", !.version = permVersion[q.copy.user]]
        PROVE  Goal
    BY <1>1, <1>11, <2>2 DEF ReadVersionLocked, RequestCopies, Request
  <2> QED BY <1>5, <1>11, <2>1, <2>2 DEF ReadVersionLocked
<1>12. ASSUME LoadSnapshot(r) PROVE Goal
  <2>1. ASSUME request'[r] = [q EXCEPT !.pc = "write", !.snap = SnapshotOf(UserOf(r)),
                                !.version = IF q.info THEN permVersion[UserOf(r)] ELSE q.version]
        PROVE  Goal
    BY <1>1, <1>12, <2>1 DEF LoadSnapshot, RequestCopies, Request
  <2> QED BY <1>4, <1>12, <2>1 DEF LoadSnapshot
<1>13. ASSUME WritePermissions(r) PROVE Goal
  <2> DEFINE updated == Updated(q.copy, q.version, q.snap)
  <2>1. q.token \in Tokens /\ q.copy \in Session /\ owner[q.token] = q.copy.user
    BY <1>1, <1>13 DEF WritePermissions, RequestCopies, Request, Matches
  <2>2. ASSUME UpdateSessionPermissions(q.token, q.copy, q.version, q.snap),
               request'[r] = [q EXCEPT !.seen = updated, !.copy = None,
                                       !.pc = IF q.info THEN "handling" ELSE "accepted"]
        PROVE  Goal
    <3>1. session'[q.token] = updated /\ owner' = owner
      BY <2>1, <2>2 DEF UpdateSessionPermissions, StoreSession, StoreTypeOK
    <3>2. updated.user = q.copy.user /\ updated.revision \in Nat /\ updated # None
      BY <2>1, <1>1, NoneAssumption DEF Updated, Session, Request
    <3>3. Matches(session'[q.token], owner'[q.token], updated)
      BY <2>1, <3>1, <3>2 DEF Matches
    <3> HIDE DEF updated
    <3> QED BY <1>1, <2>1, <2>2, <3>2, <3>3, NoneAssumption DEF RequestCopies, Request
  <2> QED BY <1>4, <1>13, <2>2 DEF WritePermissions
<1>14. ASSUME Reread(r) PROVE Goal
  <2>1. ASSUME Live(q.token),
               request'[r] = [q EXCEPT !.pc = "write", !.copy = session[q.token],
                                !.snap = SnapshotOf(UserOf(r)),
                                !.version = permVersion[UserOf(r)], !.tries = q.tries + 1]
        PROVE  Goal
    BY <1>1, <1>2, <1>14, <2>1 DEF Reread, RequestCopies, Request
  <2> QED BY <1>4, <1>14, <2>1 DEF Reread
<1>15. ASSUME CompensateRequest(r) PROVE Goal
  BY <1>5, <1>15 DEF CompensateRequest
<1>16. ASSUME RenewToken(r) PROVE Goal
  <2> DEFINE held == IF q.copy = None THEN q.seen ELSE q.copy
  <2>1. /\ held # None
        /\ q.token \in Tokens
        /\ Matches(session'[q.token], owner'[q.token], held)
    BY <1>1, <1>16 DEF RenewToken, RequestCopies, Request
  <2>2. ASSUME request'[r] = [q EXCEPT !.pc = "handling", !.seen = held, !.copy = None,
                                       !.tries = 1]
        PROVE  Goal
    <3> HIDE DEF held
    <3> QED BY <1>1, <1>16, <2>1, <2>2 DEF RenewToken, RequestCopies, Request
  <2>3. ASSUME request'[r] = [q EXCEPT !.copy = session[q.token], !.tries = q.tries + 1],
               Live(q.token)
        PROVE  Goal
    BY <1>1, <1>2, <1>16, <2>3 DEF RenewToken, RequestCopies, Request
  <2>4. ASSUME request'[r] = [q EXCEPT !.pc = "handling", !.copy = None, !.tries = 1]
        PROVE  Goal
    BY <1>1, <1>16, <2>4 DEF RenewToken, RequestCopies, Request
  <2>5. ReplaceResult(q.token, held, held.version) = "revision" => Live(q.token)
    BY DEF ReplaceResult
  <2> QED BY <1>16, <2>2, <2>3, <2>4, <2>5 DEF RenewToken
<1>17. ASSUME StartInfo(r) PROVE Goal
  BY <1>1, <1>17 DEF StartInfo, RequestCopies, Request
<1>18. ASSUME Finish(r) PROVE Goal
  BY <1>5, <1>18 DEF Finish
<1> QED
  BY <1>6, <1>7, <1>8, <1>9, <1>10, <1>11, <1>12, <1>13, <1>14, <1>15, <1>16, <1>17, <1>18
     DEF RequestStep

\* One session of the refresh loop: it and possibly the user's others are done with.
LEMMA MutatorSkips ==
    ASSUME TypeOK, NEW m \in Mutators, NEW t \in Tokens, RefreshSession(m, t)
    PROVE  /\ mutator'[m].pc = "refresh"
           /\ mutator'[m].copies[t] = None
           /\ \A x \in Tokens : mutator'[m].copies[x] \in {mutator[m].copies[x], None}
           /\ mutator'[m].snaps = mutator[m].snaps
<1> USE DEF TypeOK
<1> DEFINE q == mutator[m]
           rest(u) == [x \in Tokens |-> IF x \in Unwritten(m, u) THEN None ELSE q.copies[x]]
           us == q.failed \cup {q.copies[t].user}
           Goal == /\ mutator'[m].pc = "refresh"
                   /\ mutator'[m].copies[t] = None
                   /\ \A x \in Tokens : mutator'[m].copies[x] \in {q.copies[x], None}
                   /\ mutator'[m].snaps = q.snaps
<1>1. q \in Mutator /\ q.pc = "refresh" /\ t \in Unwritten(m, q.copies[t].user)
  BY DEF RefreshSession, Unwritten
<1>2. ASSUME mutator' = [mutator EXCEPT ![m].copies[t] = None] PROVE Goal
  BY <1>1, <1>2 DEF Mutator
<1>3. ASSUME mutator' = [mutator EXCEPT ![m] =
                           [@ EXCEPT !.failed = us, !.copies = rest(q.copies[t].user)]]
      PROVE  Goal
  BY <1>1, <1>3 DEF Mutator
<1>4. Goal
  <2> HIDE DEF Goal
  <2> QED BY <1>2, <1>3 DEF RefreshSession
<1> QED BY <1>4

\* What a permission change reads before its refresh loop.
LEMMA MutatorCollects ==
    ASSUME TypeOK, NEW m \in Mutators, CollectSessions(m)
    PROVE  \/ /\ mutator'[m].pc = "refresh"
              /\ mutator'[m].snaps = [u \in Users |-> SnapshotOf(u)]
              /\ \A t \in Tokens : mutator'[m].copies[t] \in {session[t], None}
           \/ /\ mutator'[m].pc = "compensate"
              /\ mutator[m].pc # "refresh"
              /\ mutator'[m].copies = mutator[m].copies
<1> USE DEF TypeOK
<1> DEFINE q == mutator[m]
           copies == [t \in Tokens |->
                        IF \E u \in q.users : t \in index[u] THEN session[t] ELSE None]
           snaps == [u \in Users |-> SnapshotOf(u)]
           Loop == /\ mutator'[m].pc = "refresh"
                   /\ mutator'[m].snaps = snaps
                   /\ \A t \in Tokens : mutator'[m].copies[t] \in {session[t], None}
           Failed == /\ mutator'[m].pc = "compensate"
                     /\ mutator'[m].copies = q.copies
<1>1. q \in Mutator /\ q.pc = "collect"
  BY DEF CollectSessions
<1>2. ASSUME mutator'[m] = [q EXCEPT !.pc = "refresh", !.snaps = snaps, !.copies = copies]
      PROVE  Loop
  <2>1. \A t \in Tokens : copies[t] \in {session[t], None}
    OBVIOUS
  <2>2. mutator'[m].copies = copies
    <3> HIDE DEF copies, snaps
    <3> QED BY <1>1, <1>2 DEF Mutator
  <2>3. mutator'[m].pc = "refresh" /\ mutator'[m].snaps = snaps
    <3> HIDE DEF copies, snaps
    <3> QED BY <1>1, <1>2 DEF Mutator
  <2> HIDE DEF copies, snaps
  <2> QED BY <2>1, <2>2, <2>3
<1>3. ASSUME NEW us, mutator'[m] = [q EXCEPT !.pc = "compensate", !.failed = us]
      PROVE  Failed
  BY <1>1, <1>3 DEF Mutator
<1>4. Loop \/ Failed
  <2> HIDE DEF Loop, Failed
  <2> QED BY <1>2, <1>3 DEF CollectSessions
<1> QED BY <1>1, <1>4

LEMMA MutatorCopiesStep ==
    ASSUME CopiesInv, [StoreNext]_storeVars, NEW m \in Mutators, MutatorStep(m)
    PROVE  MutatorCopies(mutator'[m], session', owner')
<1> USE DEF CopiesInv, TypeOK
<1> DEFINE q == mutator[m]
           Goal == MutatorCopies(mutator'[m], session', owner')
<1>1. /\ q \in Mutator
      /\ MutatorCopies(q, session, owner)
      /\ MutatorCopies(q, session', owner')
  BY CopiesKept DEF Copies
<1>2. \A t \in Tokens : q.copies[t] # None => q.pc = "refresh"
  BY <1>1 DEF MutatorCopies
<1>3. ASSUME mutator'[m].copies = q.copies, q.pc # "refresh" PROVE Goal
  BY <1>2, <1>3 DEF MutatorCopies
<1>4. ASSUME Released(m) PROVE Goal
  <2>1. mutator'[m] = NoMutator
    BY <1>4 DEF Released
  <2> QED BY <2>1 DEF MutatorCopies, NoMutator
<1>5. ASSUME NEW us \in SUBSET Users, NEW kind \in Kinds, BeginMutation(m, us, kind) PROVE Goal
  BY <1>1, <1>3, <1>5 DEF BeginMutation, Mutator
<1>6. ASSUME AdvanceVersions(m) PROVE Goal
  <2>1. ASSUME mutator'[m] = [q EXCEPT !.pc = "commit", !.versions = permVersion'] PROVE Goal
    <3>1. mutator'[m].copies = q.copies
      BY <1>1, <2>1 DEF Mutator
    <3> QED BY <1>3, <1>6, <3>1 DEF AdvanceVersions
  <2> QED BY <1>4, <1>6, <2>1 DEF AdvanceVersions
<1>7. ASSUME CommitMutation(m) PROVE Goal
  <2>1. ASSUME mutator'[m] = [q EXCEPT !.pc = "collect"] PROVE Goal
    <3>1. mutator'[m].copies = q.copies
      BY <1>1, <2>1 DEF Mutator
    <3> QED BY <1>3, <1>7, <3>1 DEF CommitMutation
  <2> QED BY <1>4, <1>7, <2>1 DEF CommitMutation
<1>8. ASSUME CollectSessions(m) PROVE Goal
  <2>1. \A t \in Tokens : session[t] # None => Matches(session'[t], owner'[t], session[t])
    BY StoredMatches, MatchesStep DEF Live, StoreTypeOK
  <2> QED BY <1>3, <1>8, <2>1, MutatorCollects DEF MutatorCopies
<1>9. ASSUME NEW t \in Tokens, RefreshSession(m, t) PROVE Goal
  BY <1>1, <1>9, MutatorSkips DEF MutatorCopies
<1>10. ASSUME FinishMutation(m) PROVE Goal
  <2>1. ASSUME mutator'[m] = [q EXCEPT !.pc = "compensate"] PROVE Goal
    BY <1>1, <1>10, <2>1 DEF FinishMutation, Mutator, MutatorCopies
  <2> QED BY <1>4, <1>10, <2>1 DEF FinishMutation
<1>11. ASSUME CompensateMutation(m) PROVE Goal
  BY <1>4, <1>11 DEF CompensateMutation
<1> QED
  BY <1>5, <1>6, <1>7, <1>8, <1>9, <1>10, <1>11 DEF MutatorStep

LEMMA LoginUserStep ==
    ASSUME CopiesInv, NEW l \in Logins, LoginStep(l)
    PROVE  login'[l].pc # "idle" => login'[l].user # None
<1> USE DEF CopiesInv, TypeOK
<1>1. login[l] \in Login /\ (login[l].pc # "idle" => login[l].user # None)
  BY DEF Copies
<1>2. ASSUME NEW u \in Users, ReadGeneration(l, u) PROVE login'[l].user # None
  BY <1>2, NoneAssumption DEF ReadGeneration, NoLogin
<1>3. ASSUME ReadUser(l) PROVE login'[l] = NoLogin \/ login'[l].user = login[l].user
  BY <1>1, <1>3 DEF ReadUser, Login
<1>4. ASSUME LoadMenus(l) PROVE login'[l].user = login[l].user
  BY <1>1, <1>4 DEF LoadMenus, Login
<1>5. ASSUME ReadPermissionVersion(l)
      PROVE  login'[l] = NoLogin \/ login'[l].user = login[l].user
  BY <1>1, <1>5 DEF ReadPermissionVersion, Login
<1>6. ASSUME CreateToken(l) PROVE login'[l] = NoLogin
  BY <1>6 DEF CreateToken
<1> QED
  BY <1>1, <1>2, <1>3, <1>4, <1>5, <1>6
     DEF LoginStep, NoLogin, ReadUser, LoadMenus, ReadPermissionVersion

LEMMA CopiesStep == CopiesInv /\ [Next]_vars => CopiesInv'
<1> SUFFICES ASSUME CopiesInv, [Next]_vars PROVE CopiesInv'
  OBVIOUS
<1>1. [StoreNext]_storeVars
  BY StoreStep
<1>2. StoreInv'
  BY <1>1, StoreInvStep DEF CopiesInv
<1>3. TypeOK'
  BY <1>2, TypeStep DEF StoreInv
<1>4. ASSUME NEW r \in Requests PROVE RequestCopies(request'[r], session', owner')
  <2>1. CASE request'[r] = request[r]
    BY <1>1, <2>1, CopiesKept
  <2>2. CASE RequestStep(r)
    BY <1>1, <2>2, RequestCopiesStep
  <2>3. CASE Crash
    BY <2>3 DEF Crash, NoRequest, RequestCopies
  <2> QED BY <2>1, <2>2, <2>3, HandlersFrame DEF CopiesInv
<1>5. ASSUME NEW m \in Mutators PROVE MutatorCopies(mutator'[m], session', owner')
  <2>1. CASE mutator'[m] = mutator[m]
    BY <1>1, <2>1, CopiesKept
  <2>2. CASE MutatorStep(m)
    BY <1>1, <2>2, MutatorCopiesStep
  <2>3. CASE Crash
    BY <2>3 DEF Crash, NoMutator, MutatorCopies
  <2> QED BY <2>1, <2>2, <2>3, HandlersFrame DEF CopiesInv
<1>6. ASSUME NEW l \in Logins PROVE login'[l].pc # "idle" => login'[l].user # None
  <2>1. CASE login'[l] = login[l]
    BY <2>1 DEF CopiesInv, Copies
  <2>2. CASE LoginStep(l)
    BY <2>2, LoginUserStep
  <2>3. CASE Crash
    BY <2>3 DEF Crash, NoLogin
  <2> QED BY <2>1, <2>2, <2>3, HandlersFrame DEF CopiesInv
<1> QED
  BY <1>2, <1>3, <1>4, <1>5, <1>6 DEF CopiesInv, Copies

LEMMA CopiesInit == Init => CopiesInv
<1> SUFFICES ASSUME Init PROVE CopiesInv
  OBVIOUS
<1> USE NoneAssumption, HandlerAssumption
<1>1. StoreInv
  BY StoreInvInit DEF Init
<1>2. NoRequest \in Request /\ NoRevoker \in Revoker /\ NoSnap \in Snapshot
  BY DEF NoRequest, Request, RequestPC, NoRevoker, Revoker, NoSnap, Snapshot
<1>3. NoLogin \in Login
  BY <1>2 DEF NoLogin, Login, LoginPC
<1>4. NoMutator \in Mutator
  BY <1>2 DEF NoMutator, Mutator, MutatorPC
<1>5. NoBirth \in Birth
  BY Zenon DEF NoBirth, Birth
<1>6. TypeOK
  BY <1>1, <1>2, <1>3, <1>4, <1>5 DEF Init, TypeOK, StoreInv, Account
<1>7. Copies
  BY DEF Init, Copies, RequestCopies, MutatorCopies, NoRequest, NoMutator, NoLogin
<1> QED BY <1>1, <1>6, <1>7 DEF CopiesInv

LEMMA CopiesAlways == Spec => []CopiesInv
  BY CopiesInit, CopiesStep, PTL DEF Spec

\* Type correctness of the protocol.
THEOREM PermissionTypeOK == Spec => []TypeOK
<1>1. CopiesInv => TypeOK
  BY DEF CopiesInv
<1> QED BY <1>1, CopiesAlways, PTL

\* The handlers, with their old copies of sessions, use Redis as SessionStore
\* says: token.go's scripts never store anything but the session that is stored,
\* renewed or with a refreshed snapshot.
THEOREM StoreImplemented == Spec => StoreSpec
<1>1. Init => StoreInit
  BY DEF Init
<1> QED BY <1>1, CopiesAlways, StoreStep, PTL DEF Spec, StoreSpec

\* SessionStore's guarantees hold of the whole protocol.
COROLLARY StoreGuarantees ==
    Spec => [](SessionsIndexed /\ SessionsCurrent) /\ NoResurrection /\ RefreshNotUndone
  BY StoreImplemented, StoreCorrect, StoreNoResurrection, StoreRefreshNotUndone, PTL

-----------------------------------------------------------------------------
(* The permission lock.                                                    *)

\* Handler x keeps, takes or releases the permission lock.
LockMove(x) ==
    \/ UNCHANGED permissionRefreshMu
    \/ permissionRefreshMu = None /\ permissionRefreshMu' = x
    \/ permissionRefreshMu = x /\ permissionRefreshMu' = None

LockInv == TypeOK /\ LockDiscipline

LEMMA RequestLock ==
    ASSUME LockInv, NEW r \in Requests, RequestStep(r)
    PROVE  /\ LockMove(r)
           /\ request'[r].pc \in LockedRequestPC => permissionRefreshMu' = r
<1> USE DEF LockInv, TypeOK, LockDiscipline, LockMove, LockedRequestPC, locks
<1> DEFINE q == request[r]
           Goal == /\ LockMove(r)
                   /\ request'[r].pc \in LockedRequestPC => permissionRefreshMu' = r
<1>1. q \in Request
  OBVIOUS
<1>2. ASSUME Leave(r), LockMove(r) PROVE Goal
  BY <1>2 DEF Leave, NoRequest
<1>3. ASSUME NEW pc, Goto(r, pc) PROVE request'[r].pc = pc
  BY <1>1, <1>3 DEF Goto, Request
<1>4. ASSUME NEW t \in Tokens, Receive(r, t) PROVE Goal
  BY <1>1, <1>4 DEF Receive, NoRequest
<1>5. ASSUME CheckGeneration(r) \/ CheckPending(r) \/ CheckVersion(r) PROVE Goal
  <2>1. UNCHANGED permissionRefreshMu
    BY <1>5 DEF CheckGeneration, CheckPending, CheckVersion
  <2>2. \/ Leave(r)
        \/ \E pc \in {"pending", "version", "accepted", "stale"} : Goto(r, pc)
    BY <1>5 DEF CheckGeneration, CheckPending, CheckVersion
  <2> QED BY <1>2, <1>3, <2>1, <2>2
<1>6. ASSUME LockStale(r) PROVE Goal
  BY <1>1, <1>2, <1>6 DEF LockStale
<1>7. ASSUME ReadVersionLocked(r) PROVE Goal
  <2>1. ASSUME request' = [request EXCEPT ![r] = [@ EXCEPT !.pc = "accepted", !.seen = q.copy]]
        PROVE  request'[r].pc = "accepted"
    BY <1>1, <2>1 DEF Request
  <2>2. permissionRefreshMu = r
    BY <1>7 DEF ReadVersionLocked
  <2> QED BY <1>2, <1>7, <2>1, <2>2 DEF ReadVersionLocked
<1>8. ASSUME LoadSnapshot(r) PROVE Goal
  BY <1>8 DEF LoadSnapshot
<1>9. ASSUME WritePermissions(r) PROVE Goal
  <2>1. permissionRefreshMu = r
    BY <1>9 DEF WritePermissions
  <2> DEFINE updated == Updated(q.copy, q.version, q.snap)
             next == IF q.info THEN "handling" ELSE "accepted"
  <2>2. ASSUME request' = [request EXCEPT ![r] =
                             [@ EXCEPT !.seen = updated, !.copy = None, !.pc = next]]
        PROVE  request'[r].pc \in {"handling", "accepted"}
    <3> HIDE DEF updated
    <3> QED BY <1>1, <2>2 DEF Request
  <2>3. \/ UNCHANGED permissionRefreshMu
        \/ /\ permissionRefreshMu' = None
           /\ request'[r].pc \in {"handling", "accepted"}
    BY <1>9, <2>2 DEF WritePermissions
  <2> QED BY <2>1, <2>3
<1>10. ASSUME Reread(r) PROVE Goal
  BY <1>10 DEF Reread
<1>11. ASSUME CompensateRequest(r) PROVE Goal
  BY <1>2, <1>11 DEF CompensateRequest
<1>12. ASSUME RenewToken(r) PROVE Goal
  BY <1>12, RenewMoves DEF RenewToken
<1>13. ASSUME StartInfo(r) PROVE Goal
  BY <1>13 DEF StartInfo
<1>14. ASSUME Finish(r) PROVE Goal
  BY <1>2, <1>14 DEF Finish
<1> QED
  BY <1>4, <1>5, <1>6, <1>7, <1>8, <1>9, <1>10, <1>11, <1>12, <1>13, <1>14 DEF RequestStep

LEMMA LoginLock ==
    ASSUME LockInv, NEW l \in Logins, LoginStep(l)
    PROVE  /\ LockMove(l)
           /\ login'[l].pc \in {"version", "create"} => permissionRefreshMu' = l
<1> USE DEF LockInv, TypeOK, LockDiscipline, LockMove, locks
<1>1. login[l] \in Login
  OBVIOUS
<1>2. ASSUME NEW u \in Users, ReadGeneration(l, u)
      PROVE  UNCHANGED permissionRefreshMu /\ login'[l].pc = "user"
  BY <1>2 DEF ReadGeneration, NoLogin
<1>3. ASSUME ReadUser(l)
      PROVE  UNCHANGED permissionRefreshMu /\ login'[l].pc \in {"idle", "lock"}
  BY <1>1, <1>3 DEF ReadUser, NoLogin, Login
<1>4. ASSUME LoadMenus(l)
      PROVE  permissionRefreshMu = None /\ permissionRefreshMu' = l
  BY <1>4 DEF LoadMenus
<1>5. ASSUME ReadPermissionVersion(l)
      PROVE  /\ permissionRefreshMu = l
             /\ \/ UNCHANGED permissionRefreshMu
                \/ permissionRefreshMu' = None /\ login'[l].pc = "idle"
  BY <1>5 DEF ReadPermissionVersion, NoLogin
<1>6. ASSUME CreateToken(l)
      PROVE  permissionRefreshMu = l /\ permissionRefreshMu' = None /\ login'[l].pc = "idle"
  BY <1>6 DEF CreateToken, NoLogin
<1> QED BY <1>2, <1>3, <1>4, <1>5, <1>6 DEF LoginStep

LEMMA MutatorLock ==
    ASSUME LockInv, NEW m \in Mutators, MutatorStep(m)
    PROVE  /\ LockMove(m)
           /\ mutator'[m].pc # "idle" => permissionRefreshMu' = m
<1> USE DEF LockInv, TypeOK, LockDiscipline, LockMove, locks
<1>1. ASSUME NEW us \in SUBSET Users, NEW kind \in Kinds, BeginMutation(m, us, kind)
      PROVE  permissionRefreshMu = None /\ permissionRefreshMu' = m
  BY <1>1 DEF BeginMutation
<1>2. Released(m) => permissionRefreshMu' = None /\ mutator'[m].pc = "idle"
  BY DEF Released, NoMutator
<1>3. ASSUME ~ (\E us \in SUBSET Users, kind \in Kinds : BeginMutation(m, us, kind))
      PROVE  permissionRefreshMu = m /\ (UNCHANGED permissionRefreshMu \/ Released(m))
  BY <1>3 DEF MutatorStep, AdvanceVersions, CommitMutation, CollectSessions, RefreshSession,
              FinishMutation, CompensateMutation
<1> QED BY <1>1, <1>2, <1>3

LEMMA LockStep == LockInv /\ [Next]_vars => LockDiscipline'
<1> SUFFICES ASSUME LockInv, [Next]_vars PROVE LockDiscipline'
  OBVIOUS
<1> USE HandlerAssumption DEF LockInv, LockDiscipline, LockMove
<1>1. ASSUME NEW r \in Requests, RequestStep(r) PROVE LockDiscipline'
  BY <1>1, RequestLock, RequestFrame DEF LockedRequestPC
<1>2. ASSUME NEW l \in Logins, LoginStep(l) PROVE LockDiscipline'
  BY <1>2, LoginLock, LoginFrame DEF LockedRequestPC
<1>3. ASSUME NEW m \in Mutators, MutatorStep(m) PROVE LockDiscipline'
  BY <1>3, MutatorLock, MutatorFrame DEF LockedRequestPC
<1>4. ASSUME OtherStep PROVE LockDiscipline'
  BY <1>4, OtherFrame
<1>5. ASSUME Crash PROVE LockDiscipline'
  BY <1>5 DEF Crash, NoRequest, NoLogin, NoMutator, LockedRequestPC
<1> QED BY <1>1, <1>2, <1>3, <1>4, <1>5, NextSteps

\* Whoever is inside the permission critical section holds permissionRefreshMu,
\* through failed calls and crashes (token.go, login.go).
THEOREM LockDisciplineAlways == Spec => []LockDiscipline
<1>1. Init => LockDiscipline
  BY DEF Init, LockDiscipline, NoRequest, NoLogin, NoMutator, LockedRequestPC
<1>2. TypeOK /\ LockDiscipline /\ [Next]_vars => LockDiscipline'
  BY LockStep DEF LockInv
<1> QED BY <1>1, <1>2, PermissionTypeOK, PTL DEF Spec

-----------------------------------------------------------------------------
(* What a permission version promises.                                     *)

\* The users whose change is announced (version advanced) but not committed.
Announced == {u \in Users : \E m \in Mutators : mutator[m].pc = "commit" /\ u \in mutator[m].users}

\* Session c against the permission versions, the database and Announced: it is
\* not ahead, and if it has the current version it has the current menu
\* permissions, with no change of them announced.
Sound(c, pv, db, ann) ==
    /\ c.version <= pv[c.user]
    /\ c.version = pv[c.user] => /\ c.snap.granted = db[c.user].granted
                                 /\ c.user \notin ann

Authorities ==
    /\ \A t \in Tokens : Live(t) => Sound(session[t], permVersion, database, Announced)
    /\ \A r \in Requests :
         /\ request[r].seen # None => Sound(request[r].seen, permVersion, database, Announced)
         /\ request[r].copy # None => Sound(request[r].copy, permVersion, database, Announced)

\* A snapshot about to be written under the lock is what the database says.
FreshSnapshots ==
    /\ \A r \in Requests : request[r].pc = "write" =>
         request[r].snap.granted = database[request[r].seen.user].granted
    /\ \A l \in Logins : login[l].pc \in {"version", "create"} =>
         login[l].snap.granted = database[login[l].user].granted
    /\ \A m \in Mutators : mutator[m].pc = "refresh" =>
         \A u \in Users : mutator[m].snaps[u].granted = database[u].granted

AuthorityInv == CopiesInv /\ LockDiscipline /\ Authorities /\ FreshSnapshots

\* While somebody else holds the lock, no permission change is under way.
LEMMA OneMutation ==
    ASSUME LockInv, NEW m \in Mutators, permissionRefreshMu = m
    PROVE  Announced = IF mutator[m].pc = "commit" THEN mutator[m].users ELSE {}
  BY DEF LockInv, TypeOK, LockDiscipline, Announced, Mutator

LEMMA NoneAnnounced ==
    ASSUME LockInv, permissionRefreshMu \in Requests \cup Logins
    PROVE  Announced = {}
  BY HandlerAssumption DEF LockInv, LockDiscipline, Announced

LEMMA AdvanceAnnounces ==
    ASSUME LockInv, NEW m \in Mutators, AdvanceVersions(m)
    PROVE  /\ UNCHANGED database
           /\ \A u \in Users : /\ permVersion'[u] \in {permVersion[u], permVersion[u] + 1}
                               /\ u \in Announced' => permVersion'[u] = permVersion[u] + 1
<1> USE DEF LockInv, TypeOK
<1> DEFINE q == mutator[m]
<1>1. q \in Mutator /\ q.pc = "advance" /\ permissionRefreshMu = m
  BY DEF AdvanceVersions, LockDiscipline
<1>2. \A k \in Mutators : k # m => mutator'[k].pc = "idle"
  BY <1>1, MutatorFrame DEF MutatorStep, LockDiscipline
<1>3. /\ UNCHANGED database
      /\ \A u \in Users : permVersion'[u] \in {permVersion[u], permVersion[u] + 1}
  BY DEF AdvanceVersions, AdvancePermissionVersion, StoreTypeOK
<1>4. ASSUME mutator' = [mutator EXCEPT ![m] = [@ EXCEPT !.pc = "commit", !.versions = permVersion']],
             AdvancePermissionVersion(q.users), NEW u \in Users, u \in Announced'
      PROVE  permVersion'[u] = permVersion[u] + 1
  <2>1. mutator'[m].users = q.users
    BY <1>1, <1>4 DEF Mutator
  <2> QED BY <1>2, <1>4, <2>1 DEF Announced, AdvancePermissionVersion
<1>5. ASSUME Released(m) PROVE Announced' = {}
  BY <1>2, <1>5 DEF Released, NoMutator, Announced
<1> QED BY <1>3, <1>4, <1>5 DEF AdvanceVersions

LEMMA CommitChanges ==
    ASSUME LockInv, NEW m \in Mutators, CommitMutation(m)
    PROVE  /\ UNCHANGED permVersion
           /\ Announced' = {}
           /\ \A u \in Users \ Announced : database'[u] = database[u]
<1> USE DEF LockInv, TypeOK
<1> DEFINE q == mutator[m]
<1>1. q \in Mutator /\ q.pc = "commit" /\ permissionRefreshMu = m
  BY DEF CommitMutation, LockDiscipline
<1>2. \A k \in Mutators : k # m => mutator'[k].pc = "idle"
  BY <1>1, MutatorFrame DEF MutatorStep, LockDiscipline
<1>3. mutator'[m].pc # "commit"
  BY <1>1 DEF CommitMutation, Released, NoMutator, Mutator
<1>4. \A u \in Users \ q.users : database'[u] = database[u]
  BY DEF CommitMutation, Changed
<1>5. UNCHANGED permVersion
  BY DEF CommitMutation, storeVars
<1> QED BY <1>1, <1>2, <1>3, <1>4, <1>5, OneMutation DEF Announced

\* Any other step leaves versions and menu permissions alone and announces nothing.
LEMMA AuthorityKept ==
    ASSUME LockInv, CopiesInv, [Next]_vars,
           \A m \in Mutators : ~ AdvanceVersions(m) /\ ~ CommitMutation(m)
    PROVE  /\ UNCHANGED permVersion
           /\ Announced' \subseteq Announced
           /\ \A u \in Users : database'[u].granted = database[u].granted
<1> USE DEF LockInv, TypeOK
<1>1. ASSUME NEW batch, RevokeBatch(batch) PROVE UNCHANGED permVersion
  BY <1>1 DEF RevokeBatch, RevokeSessions
<1>2. ASSUME NEW l \in Logins, LoginStep(l) PROVE UNCHANGED permVersion
  BY <1>2 DEF LoginStep, ReadGeneration, ReadUser, LoadMenus, ReadPermissionVersion,
              CreateToken, CreateSession, storeVars
<1>3. ASSUME NEW r \in Requests, RequestStep(r) PROVE UNCHANGED permVersion
  BY <1>1, <1>3 DEF RequestStep, Receive, CheckGeneration, CheckPending, CheckVersion, LockStale,
     ReadVersionLocked, LoadSnapshot, WritePermissions, Reread, CompensateRequest, RenewToken,
     StartInfo, Finish, DeleteSession, UpdateSessionPermissions, RenewSession, StoreSession,
     storeVars
<1>4. ASSUME NEW m \in Mutators, MutatorStep(m)
      PROVE  UNCHANGED <<permVersion, database>> /\ Announced' \subseteq Announced
  <2>1. UNCHANGED <<permVersion, database>>
    BY <1>1, <1>4 DEF MutatorStep, BeginMutation, CollectSessions, RefreshSession, FinishMutation,
       CompensateMutation, CleanIndex, UpdateSessionPermissions, StoreSession, storeVars
  <2>2. mutator'[m].pc # "commit"
    <3>1. ASSUME NEW t \in Tokens, RefreshSession(m, t) PROVE mutator'[m].pc = "refresh"
      BY <3>1, MutatorSkips
    <3>2. ASSUME CollectSessions(m) PROVE mutator'[m].pc # "commit"
      BY <3>2, MutatorCollects
    <3>3. ASSUME NEW us \in SUBSET Users, NEW kind \in Kinds, BeginMutation(m, us, kind)
          PROVE  mutator'[m].pc = "advance"
      BY <3>3 DEF BeginMutation, Mutator
    <3>4. ASSUME FinishMutation(m) PROVE Released(m) \/ mutator'[m].pc = "compensate"
      BY <3>4 DEF FinishMutation, Mutator
    <3> QED
      BY <1>4, <3>1, <3>2, <3>3, <3>4 DEF MutatorStep, CompensateMutation, Released, NoMutator
  <2> QED BY <1>4, <2>1, <2>2, MutatorFrame DEF Announced
<1>5. ASSUME OtherStep
      PROVE  UNCHANGED permVersion /\ \A u \in Users : database'[u].granted = database[u].granted
  <2>1. ASSUME NEW w \in Revokers, RevokerStep(w)
        PROVE  UNCHANGED permVersion /\ \A u \in Users : database'[u].granted = database[u].granted
    BY <2>1 DEF RevokerStep, RevokeAccounts, WriteAccounts, RevokeSessions, Account, storeVars
  <2>2. ASSUME NEW t \in Tokens, Logout(t) PROVE UNCHANGED <<permVersion, database>>
    BY <2>2 DEF Logout, DeleteSession
  <2>3. ASSUME Cleanup PROVE UNCHANGED <<permVersion, database>>
    BY <1>1, <2>3 DEF Cleanup
  <2>4. ASSUME Expire PROVE UNCHANGED <<permVersion, database>>
    BY <2>4 DEF Expire, ExpireSession, ExpireIndex, ExpireGeneration
  <2>5. ASSUME UNCHANGED vars PROVE UNCHANGED <<permVersion, database>>
    BY <2>5 DEF vars, storeVars
  <2> QED BY <1>5, <2>1, <2>2, <2>3, <2>4, <2>5 DEF OtherStep
<1>6. ASSUME Crash PROVE UNCHANGED <<permVersion, database>> /\ Announced' = {}
  BY <1>6 DEF Crash, storeVars, Announced, NoMutator
<1>7. UNCHANGED mutator => Announced' = Announced
  BY DEF Announced
<1> QED
  BY <1>2, <1>3, <1>4, <1>5, <1>6, <1>7, NextSteps, LoginFrame, RequestFrame, OtherFrame

\* Whatever is sound stays sound: announcing a change makes the old version
\* stale before the change is committed.
LEMMA SoundStep ==
    ASSUME AuthorityInv, [Next]_vars, NEW c \in Session,
           Sound(c, permVersion, database, Announced)
    PROVE  Sound(c, permVersion', database', Announced')
<1> USE DEF AuthorityInv
<1>1. LockInv
  BY DEF LockInv, CopiesInv
<1>2. c.user \in Users /\ c.version \in Nat /\ permVersion[c.user] \in Nat
  BY DEF CopiesInv, TypeOK, StoreTypeOK, Session
<1>3. ASSUME NEW m \in Mutators, AdvanceVersions(m) PROVE Sound(c, permVersion', database', Announced')
  <2>1. /\ database' = database
        /\ permVersion'[c.user] \in {permVersion[c.user], permVersion[c.user] + 1}
        /\ c.user \in Announced' => permVersion'[c.user] = permVersion[c.user] + 1
    BY <1>1, <1>2, <1>3, AdvanceAnnounces
  <2> QED BY <1>2, <2>1 DEF Sound
<1>4. ASSUME NEW m \in Mutators, CommitMutation(m) PROVE Sound(c, permVersion', database', Announced')
  <2>1. /\ permVersion' = permVersion
        /\ c.user \notin Announced'
        /\ c.user \notin Announced => database'[c.user] = database[c.user]
    BY <1>1, <1>2, <1>4, CommitChanges
  <2> QED BY <2>1 DEF Sound
<1>5. ASSUME \A m \in Mutators : ~ AdvanceVersions(m) /\ ~ CommitMutation(m)
      PROVE  Sound(c, permVersion', database', Announced')
  <2>1. /\ permVersion' = permVersion
        /\ Announced' \subseteq Announced
        /\ database'[c.user].granted = database[c.user].granted
    BY <1>1, <1>2, <1>5, AuthorityKept
  <2> QED BY <2>1 DEF Sound
<1> QED BY <1>3, <1>4, <1>5

\* What the handlers store besides the sessions that are stored.
LEMMA StoredStep ==
    ASSUME CopiesInv, [Next]_vars,
           \A l \in Logins : ~ CreateToken(l),
           \A r \in Requests : ~ WritePermissions(r),
           \A m \in Mutators, t \in Tokens : ~ RefreshSession(m, t)
    PROVE  \A t \in Tokens : session'[t] \in {session[t], None}
<1> USE DEF CopiesInv, TypeOK, StoreTypeOK
<1> DEFINE Goal == \A t \in Tokens : session'[t] \in {session[t], None}
<1>1. ASSUME NEW batch, RevokeBatch(batch) PROVE Goal
  BY <1>1 DEF RevokeBatch, RevokeSessions
<1>2. ASSUME NEW t \in Tokens, DeleteSession(t) \/ ExpireSession(t) PROVE Goal
  BY <1>2 DEF DeleteSession, ExpireSession
<1>3. ASSUME NEW l \in Logins, LoginStep(l) PROVE Goal
  BY <1>3 DEF LoginStep, ReadGeneration, ReadUser, LoadMenus, ReadPermissionVersion, storeVars
<1>4. ASSUME NEW r \in Requests, RenewToken(r) PROVE Goal
  <2> DEFINE q == request[r]
             held == IF q.copy = None THEN q.seen ELSE q.copy
  <2>1. q.token \in Tokens /\ held \in Session /\ Matches(session[q.token], owner[q.token], held)
    BY <1>4 DEF RenewToken, Copies, RequestCopies, Request
  <2>2. ASSUME RenewSession(q.token, held) PROVE Goal
    <3> HIDE DEF held
    <3>1. held = session[q.token]
      BY <2>1, <2>2, ReplacedIsStored DEF RenewSession
    <3> QED BY <2>1, <2>2, <3>1 DEF RenewSession, StoreSession
  <2> QED BY <1>4, <2>2 DEF RenewToken, storeVars
<1>5. ASSUME NEW r \in Requests, CheckGeneration(r) PROVE Goal
  <2>1. request[r].token \in Tokens
    BY <1>5, CopiesType DEF CheckGeneration
  <2> QED BY <1>2, <1>5, <2>1 DEF CheckGeneration, storeVars
<1>6. ASSUME NEW r \in Requests, RequestStep(r) PROVE Goal
  BY <1>1, <1>4, <1>5, <1>6 DEF RequestStep, Receive, CheckPending, CheckVersion, LockStale,
     ReadVersionLocked, LoadSnapshot, Reread, CompensateRequest, StartInfo, Finish, storeVars
<1>7. ASSUME NEW m \in Mutators, MutatorStep(m) PROVE Goal
  BY <1>1, <1>7 DEF MutatorStep, BeginMutation, AdvanceVersions, AdvancePermissionVersion,
     CommitMutation, CollectSessions, CleanIndex, FinishMutation, CompensateMutation, storeVars
<1>8. ASSUME OtherStep PROVE Goal
  <2>1. ASSUME NEW w \in Revokers, RevokerStep(w) PROVE Goal
    BY <2>1 DEF RevokerStep, RevokeAccounts, WriteAccounts, RevokeSessions, storeVars
  <2>2. ASSUME NEW t \in Tokens, Logout(t) PROVE Goal
    BY <1>2, <2>2 DEF Logout
  <2>3. ASSUME Expire PROVE Goal
    BY <1>2, <2>3 DEF Expire, ExpireIndex, ExpireGeneration
  <2> QED BY <1>1, <1>8, <2>1, <2>2, <2>3 DEF OtherStep, Cleanup, vars, storeVars
<1>9. ASSUME Crash PROVE Goal
  BY <1>9 DEF Crash, storeVars
<1> QED BY <1>3, <1>6, <1>7, <1>8, <1>9, NextSteps

\* A session that a handler stores is sound: its version is the current one, its
\* snapshot was read under the lock the handler still holds.
LEMMA StoredSound ==
    ASSUME AuthorityInv, [Next]_vars, NEW t \in Tokens, session'[t] # None
    PROVE  Sound(session'[t], permVersion, database, Announced)
<1> USE DEF AuthorityInv, CopiesInv, TypeOK, StoreTypeOK
<1> DEFINE Goal == Sound(session'[t], permVersion, database, Announced)
<1>0. LockInv
  BY DEF LockInv
<1>1. ASSUME NEW c \in Session, c.version = permVersion[c.user],
             c.snap.granted = database[c.user].granted, Announced = {}
      PROVE  Sound(c, permVersion, database, Announced)
  BY <1>1 DEF Sound, Session
<1>2. session'[t] = session[t] => Goal
  BY DEF Authorities, Live
<1>3. ASSUME NEW c \in Session, NEW v \in Nat, NEW n \in Snapshot, NEW x \in Tokens,
             UpdateSessionPermissions(x, c, v, n), n.granted = database[c.user].granted,
             Announced = {}
      PROVE  Goal
  <2>1. Updated(c, v, n) \in Session /\ v = permVersion[c.user]
    BY <1>3 DEF UpdateSessionPermissions, ReplaceResult, Updated, Session
  <2>2. Sound(Updated(c, v, n), permVersion, database, Announced)
    BY <1>1, <1>3, <2>1 DEF Updated
  <2> QED BY <1>2, <1>3, <2>2 DEF UpdateSessionPermissions, StoreSession
<1>4. ASSUME NEW l \in Logins, CreateToken(l) PROVE Goal
  <2> DEFINE s == NewSession(l)
  <2>1. s \in Session /\ s.snap.granted = database[s.user].granted
    BY <1>4, CopiesType DEF CreateToken, NewSession, Session, Login, FreshSnapshots
  <2>2. Announced = {}
    BY <1>0, <1>4, NoneAnnounced DEF CreateToken, LockDiscipline
  <2>3. CreateResult(s) = "ok" => Sound(s, permVersion, database, Announced)
    BY <1>1, <2>1, <2>2 DEF CreateResult
  <2> QED BY <1>2, <1>4, <2>3 DEF CreateToken, CreateSession, storeVars
<1>5. ASSUME NEW r \in Requests, WritePermissions(r) PROVE Goal
  <2> DEFINE q == request[r]
  <2>1. /\ q.token \in Tokens /\ q.copy \in Session /\ q.version \in Nat /\ q.snap \in Snapshot
        /\ q.seen \in Session /\ q.copy.user = q.seen.user
    BY <1>5, CopiesType DEF WritePermissions, Request, Copies, RequestCopies, Matches
  <2>2. q.snap.granted = database[q.copy.user].granted
    BY <1>5, <2>1 DEF WritePermissions, FreshSnapshots
  <2>3. Announced = {}
    BY <1>0, <1>5, NoneAnnounced DEF WritePermissions, LockDiscipline, LockedRequestPC
  <2> QED BY <1>2, <1>3, <1>5, <2>1, <2>2, <2>3 DEF WritePermissions, storeVars
<1>6. ASSUME NEW m \in Mutators, NEW x \in Tokens, RefreshSession(m, x) PROVE Goal
  <2> DEFINE c == mutator[m].copies[x]
             v == mutator[m].versions[c.user]
             n == mutator[m].snaps[c.user]
  <2>1. c \in Session /\ c.user \in Users /\ v \in Nat /\ n \in Snapshot
    BY <1>6 DEF RefreshSession, Mutator, Session
  <2>2. n.granted = database[c.user].granted
    BY <1>6, <2>1 DEF RefreshSession, FreshSnapshots
  <2>3. Announced = {}
    BY <1>0, <1>6, OneMutation DEF RefreshSession, LockDiscipline
  <2> HIDE DEF c, v, n
  <2> QED BY <1>2, <1>3, <1>6, <2>1, <2>2, <2>3 DEF RefreshSession, storeVars, c, v, n
<1> QED BY <1>2, <1>4, <1>5, <1>6, StoredStep

\* What a request keeps of sessions is sound: it is what was stored, or what it
\* has stored itself.
LEMMA RequestSound ==
    ASSUME AuthorityInv, NEW r \in Requests, RequestStep(r)
    PROVE  /\ request'[r].seen # None =>
                Sound(request'[r].seen, permVersion, database, Announced)
           /\ request'[r].copy # None =>
                Sound(request'[r].copy, permVersion, database, Announced)
<1> USE DEF AuthorityInv, CopiesInv, TypeOK
<1> DEFINE q == request[r]
           sound(c) == c # None => Sound(c, permVersion, database, Announced)
           Goal == sound(request'[r].seen) /\ sound(request'[r].copy)
<1>1. /\ q \in Request
      /\ sound(q.seen) /\ sound(q.copy)
      /\ \A t \in Tokens : sound(session[t])
      /\ q.pc # "idle" => q.token \in Tokens
  BY CopiesType DEF Authorities, Live
<1>2. ASSUME Leave(r) PROVE Goal
  BY <1>2 DEF Leave, NoRequest
<1>3. ASSUME request'[r].seen \in {q.seen, q.copy}, request'[r].copy = q.copy PROVE Goal
  BY <1>1, <1>3
<1>4. ASSUME NEW pc, Goto(r, pc) PROVE Goal
  <2>1. request'[r].seen = q.seen /\ request'[r].copy = q.copy
    BY <1>1, <1>4 DEF Goto, Request
  <2> QED BY <1>3, <2>1
<1>5. ASSUME NEW t \in Tokens, Receive(r, t) PROVE Goal
  <2>1. request'[r].seen = session[t] /\ request'[r].copy = None
    BY <1>5 DEF Receive, NoRequest
  <2> QED BY <1>1, <2>1
<1>6. ASSUME CheckGeneration(r) \/ CheckPending(r) \/ CheckVersion(r) PROVE Goal
  <2> HIDE DEF Goal
  <2> QED BY <1>2, <1>4, <1>6 DEF CheckGeneration, CheckPending, CheckVersion
<1>7. ASSUME LockStale(r) PROVE Goal
  <2>1. ASSUME request' = [request EXCEPT ![r] = [@ EXCEPT !.pc = "locked", !.copy = session[q.token]]]
        PROVE  request'[r].seen = q.seen /\ request'[r].copy = session[q.token]
    BY <1>1, <2>1 DEF Request
  <2>2. q.token \in Tokens
    BY <1>1, <1>7 DEF LockStale
  <2> QED BY <1>1, <1>2, <1>7, <2>1, <2>2 DEF LockStale
<1>8. ASSUME ReadVersionLocked(r) PROVE Goal
  <2>1. ASSUME request' = [request EXCEPT ![r] = [@ EXCEPT !.pc = "accepted", !.seen = q.copy]]
        PROVE  request'[r].seen = q.copy /\ request'[r].copy = q.copy
    BY <1>1, <2>1 DEF Request
  <2>2. ASSUME request' = [request EXCEPT ![r] =
                             [@ EXCEPT !.pc = "load", !.version = permVersion[q.copy.user]]]
        PROVE  request'[r].seen = q.seen /\ request'[r].copy = q.copy
    BY <1>1, <2>2 DEF Request
  <2> QED BY <1>2, <1>3, <1>8, <2>1, <2>2 DEF ReadVersionLocked
<1>9. ASSUME LoadSnapshot(r) PROVE Goal
  <2> DEFINE n == SnapshotOf(UserOf(r))
             v == IF q.info THEN permVersion[UserOf(r)] ELSE q.version
  <2>1. ASSUME request' = [request EXCEPT ![r] = [@ EXCEPT !.pc = "write", !.snap = n, !.version = v]]
        PROVE  request'[r].seen = q.seen /\ request'[r].copy = q.copy
    <3> HIDE DEF n, v
    <3> QED BY <1>1, <2>1 DEF Request
  <2> QED BY <1>3, <1>4, <1>9, <2>1 DEF LoadSnapshot
<1>10. ASSUME WritePermissions(r) PROVE Goal
  <2> DEFINE updated == Updated(q.copy, q.version, q.snap)
             next == IF q.info THEN "handling" ELSE "accepted"
  <2>1. ASSUME request' = [request EXCEPT ![r] =
                             [@ EXCEPT !.seen = updated, !.copy = None, !.pc = next]]
        PROVE  request'[r].seen = updated /\ request'[r].copy = None
    <3> HIDE DEF updated, next
    <3> QED BY <1>1, <2>1 DEF Request
  <2>2. /\ q.copy \in Session /\ q.snap \in Snapshot /\ q.version \in Nat
        /\ q.snap.granted = database[q.copy.user].granted
    BY <1>10, CopiesType
       DEF WritePermissions, Request, Copies, RequestCopies, Matches, FreshSnapshots
  <2>3. Announced = {}
    BY <1>10, NoneAnnounced DEF WritePermissions, LockDiscipline, LockedRequestPC, LockInv
  <2>4. ASSUME UpdateSessionPermissions(q.token, q.copy, q.version, q.snap)
        PROVE  Sound(updated, permVersion, database, Announced)
    BY <2>2, <2>3, <2>4 DEF UpdateSessionPermissions, ReplaceResult, Updated, Sound
  <2> QED BY <1>4, <1>10, <2>1, <2>4 DEF WritePermissions
<1>11. ASSUME Reread(r) PROVE Goal
  <2> DEFINE n == SnapshotOf(UserOf(r))
             v == permVersion[UserOf(r)]
  <2>1. ASSUME request' = [request EXCEPT ![r] = [@ EXCEPT !.pc = "write", !.copy = session[q.token],
                             !.snap = n, !.version = v, !.tries = q.tries + 1]]
        PROVE  request'[r].seen = q.seen /\ request'[r].copy = session[q.token]
    <3> HIDE DEF n, v
    <3> QED BY <1>1, <2>1 DEF Request
  <2>2. q.token \in Tokens
    BY <1>1, <1>11 DEF Reread
  <2> QED BY <1>1, <1>4, <1>11, <2>1, <2>2 DEF Reread
<1>12. ASSUME CompensateRequest(r) \/ Finish(r) PROVE Goal
  BY <1>2, <1>12 DEF CompensateRequest, Finish
<1>13. ASSUME RenewToken(r) PROVE Goal
  <2>1. q.token \in Tokens
    BY <1>1, <1>13 DEF RenewToken
  <2> QED BY <1>1, <1>13, <2>1, RenewMoves
<1>14. ASSUME StartInfo(r) PROVE Goal
  <2>1. request'[r].seen = q.seen /\ request'[r].copy = q.seen
    BY <1>1, <1>14 DEF StartInfo, Request
  <2> QED BY <1>1, <2>1
<1> QED
  BY <1>5, <1>6, <1>7, <1>8, <1>9, <1>10, <1>11, <1>12, <1>13, <1>14 DEF RequestStep

\* Only the commit of a permission change, under the lock, changes menu permissions.
LEMMA GrantedStep ==
    ASSUME LockInv, CopiesInv, [Next]_vars
    PROVE  \/ \A u \in Users : database'[u].granted = database[u].granted
           \/ \E m \in Mutators : CommitMutation(m)
  BY AuthorityKept, AdvanceAnnounces

\* A snapshot that a request is about to write was read in the step that brings
\* it there.
LEMMA SnapshotRead ==
    ASSUME CopiesInv, NEW r \in Requests, RequestStep(r), request'[r].pc = "write"
    PROVE  /\ request'[r].snap = SnapshotOf(UserOf(r))
           /\ request'[r].seen = request[r].seen
           /\ request'[r].token = request[r].token
           /\ request'[r].info = request[r].info
           /\ \/ LoadSnapshot(r) /\ request'[r].copy = request[r].copy
              \/ Reread(r) /\ request'[r].copy = session[request[r].token]
<1> USE DEF CopiesInv, TypeOK
<1> DEFINE q == request[r]
           n == SnapshotOf(UserOf(r))
           Kept == /\ request'[r].snap = n
                   /\ request'[r].seen = q.seen
                   /\ request'[r].token = q.token
                   /\ request'[r].info = q.info
<1>0. q \in Request
  OBVIOUS
<1>1. Leave(r) => request'[r].pc = "idle"
  BY DEF Leave, NoRequest
<1>2. ASSUME NEW pc, Goto(r, pc) PROVE request'[r].pc = pc
  BY <1>0, <1>2 DEF Goto, Request
<1>3. ASSUME NEW t \in Tokens, Receive(r, t) PROVE request'[r].pc = "generation"
  BY <1>3 DEF Receive, NoRequest
<1>4. ASSUME LockStale(r) PROVE request'[r].pc # "write"
  BY <1>0, <1>1, <1>4 DEF LockStale, Request
<1>5. ASSUME ReadVersionLocked(r) PROVE request'[r].pc # "write"
  <2>1. ASSUME request' = [request EXCEPT ![r] = [@ EXCEPT !.pc = "accepted", !.seen = q.copy]]
        PROVE  request'[r].pc = "accepted"
    BY <1>0, <2>1 DEF Request
  <2>2. ASSUME request' = [request EXCEPT ![r] =
                             [@ EXCEPT !.pc = "load", !.version = permVersion[q.copy.user]]]
        PROVE  request'[r].pc = "load"
    BY <1>0, <2>2 DEF Request
  <2> QED BY <1>1, <1>5, <2>1, <2>2 DEF ReadVersionLocked
<1>6. ASSUME WritePermissions(r) PROVE request'[r].pc # "write"
  <2> DEFINE updated == Updated(q.copy, q.version, q.snap)
             next == IF q.info THEN "handling" ELSE "accepted"
  <2>1. ASSUME request' = [request EXCEPT ![r] =
                             [@ EXCEPT !.seen = updated, !.copy = None, !.pc = next]]
        PROVE  request'[r].pc = next
    <3> HIDE DEF updated, next
    <3> QED BY <1>0, <2>1 DEF Request
  <2> QED BY <1>2, <1>6, <2>1 DEF WritePermissions
<1>7. ASSUME RenewToken(r) PROVE request'[r].pc # "write"
  BY <1>7, RenewMoves
<1>8. ASSUME StartInfo(r) PROVE request'[r].pc # "write"
  BY <1>0, <1>8 DEF StartInfo, Request
<1>9. ASSUME LoadSnapshot(r) PROVE Kept /\ request'[r].copy = q.copy
  <2> DEFINE v == IF q.info THEN permVersion[UserOf(r)] ELSE q.version
  <2>1. ASSUME request' = [request EXCEPT ![r] = [@ EXCEPT !.pc = "write", !.snap = n, !.version = v]]
        PROVE  Kept /\ request'[r].copy = q.copy
    <3> HIDE DEF n, v
    <3> QED BY <1>0, <2>1, Zenon DEF Request
  <2>2. ~ Goto(r, "compensate")
    BY <1>0 DEF Goto, Request
  <2> QED BY <1>9, <2>1, <2>2 DEF LoadSnapshot
<1>10. ASSUME Reread(r) PROVE Kept /\ request'[r].copy = session[q.token]
  <2> DEFINE v == permVersion[UserOf(r)]
             k == q.tries + 1
  <2>1. ASSUME request' = [request EXCEPT ![r] = [@ EXCEPT !.pc = "write",
                             !.copy = session[q.token], !.snap = n, !.version = v, !.tries = k]]
        PROVE  Kept /\ request'[r].copy = session[q.token]
    <3> HIDE DEF n, v, k
    <3> QED BY <1>0, <2>1, Zenon DEF Request
  <2>2. ~ Goto(r, "compensate")
    BY <1>0 DEF Goto, Request
  <2> QED BY <1>10, <2>1, <2>2 DEF Reread
<1> QED
  BY <1>1, <1>2, <1>3, <1>4, <1>5, <1>6, <1>7, <1>8, <1>9, <1>10
     DEF RequestStep, CheckGeneration, CheckPending, CheckVersion, CompensateRequest, Finish

\* A permission change comes to its refresh loop from its reads only.
LEMMA LoopEntered ==
    ASSUME TypeOK, NEW m \in Mutators, MutatorStep(m), mutator'[m].pc = "refresh"
    PROVE  CollectSessions(m) \/ \E t \in Tokens : RefreshSession(m, t)
<1> USE DEF TypeOK
<1>1. mutator[m] \in Mutator
  OBVIOUS
<1>2. Released(m) => mutator'[m].pc = "idle"
  BY DEF Released, NoMutator
<1>3. ASSUME NEW us \in SUBSET Users, NEW kind \in Kinds, BeginMutation(m, us, kind) PROVE FALSE
  BY <1>1, <1>3 DEF BeginMutation, Mutator
<1>4. ~ AdvanceVersions(m)
  BY <1>1, <1>2 DEF AdvanceVersions, Mutator
<1>5. ~ CommitMutation(m)
  BY <1>1, <1>2 DEF CommitMutation, Mutator
<1>6. ~ FinishMutation(m)
  BY <1>1, <1>2 DEF FinishMutation, Mutator
<1> QED BY <1>2, <1>3, <1>4, <1>5, <1>6 DEF MutatorStep, CompensateMutation

\* Snapshots stay fresh while the lock is held.
LEMMA FreshStep == AuthorityInv /\ [Next]_vars => FreshSnapshots'
<1> SUFFICES ASSUME AuthorityInv, [Next]_vars PROVE FreshSnapshots'
  OBVIOUS
<1> USE DEF AuthorityInv, CopiesInv, TypeOK
<1>0. LockInv
  BY DEF LockInv
<1>1. ASSUME NEW r \in Requests, request'[r].pc = "write"
      PROVE  request'[r].snap.granted = database'[request'[r].seen.user].granted
  <2> DEFINE q == request[r]
             n == SnapshotOf(UserOf(r))
             Goal == request'[r].snap.granted = database'[request'[r].seen.user].granted
  <2>1. q \in Request /\ n.granted = database[UserOf(r)].granted
    BY DEF SnapshotOf
  <2>2. q.pc # "idle" => UserOf(r) = q.seen.user /\ q.seen.user \in Users
    BY CopiesType DEF Copies, RequestCopies, Matches, UserOf
  <2>3. CASE request'[r] = q
    <3>1. permissionRefreshMu = r
      BY <1>1, <2>3 DEF LockDiscipline, LockedRequestPC
    <3>2. \A m \in Mutators : ~ CommitMutation(m)
      BY <3>1, HandlerAssumption DEF CommitMutation, LockDiscipline
    <3>3. database'[q.seen.user].granted = database[q.seen.user].granted
      BY <1>0, <1>1, <2>2, <2>3, <3>2, GrantedStep
    <3> QED BY <1>1, <2>3, <3>3 DEF FreshSnapshots
  <2>4. CASE RequestStep(r)
    BY <1>1, <2>1, <2>2, <2>4, SnapshotRead, RequestFrame DEF LoadSnapshot, Reread
  <2>5. ~ Crash
    BY <1>1 DEF Crash, NoRequest
  <2> QED BY <1>1, <2>3, <2>4, <2>5, HandlersFrame
<1>2. ASSUME NEW l \in Logins, login'[l].pc \in {"version", "create"}
      PROVE  login'[l].snap.granted = database'[login'[l].user].granted
  <2> DEFINE q == login[l]
             Goal == login'[l].snap.granted = database'[login'[l].user].granted
  <2>1. q \in Login /\ (q.pc # "idle" => q.user \in Users)
    BY CopiesType
  <2>2. CASE login'[l] = q
    <3>1. permissionRefreshMu = l
      BY <1>2, <2>2 DEF LockDiscipline
    <3>2. \A m \in Mutators : ~ CommitMutation(m)
      BY <3>1, HandlerAssumption DEF CommitMutation, LockDiscipline
    <3>3. database'[q.user].granted = database[q.user].granted
      BY <1>0, <1>2, <2>1, <2>2, <3>2, GrantedStep
    <3> QED BY <1>2, <2>2, <3>3 DEF FreshSnapshots
  <2>3. ASSUME LoadMenus(l) PROVE Goal
    BY <2>1, <2>3 DEF LoadMenus, Login, Snapshot
  <2>4. ASSUME ReadPermissionVersion(l) PROVE Goal
    <3>1. login'[l] = [q EXCEPT !.pc = "create", !.version = permVersion[q.user]]
      BY <1>2, <2>4 DEF ReadPermissionVersion, NoLogin
    <3>2. login'[l].snap = q.snap /\ login'[l].user = q.user
      BY <2>1, <3>1 DEF Login
    <3> QED BY <2>4, <3>2 DEF ReadPermissionVersion, FreshSnapshots
  <2>5. ASSUME LoginStep(l), ~ LoadMenus(l), ~ ReadPermissionVersion(l)
        PROVE  login'[l].pc \notin {"version", "create"}
    <3>1. ASSUME NEW u \in Users, ReadGeneration(l, u) PROVE login'[l].pc = "user"
      BY <3>1 DEF ReadGeneration, NoLogin
    <3>2. ASSUME ReadUser(l) PROVE login'[l].pc \in {"idle", "lock"}
      BY <2>1, <3>2 DEF ReadUser, NoLogin, Login
    <3>3. ASSUME CreateToken(l) PROVE login'[l].pc = "idle"
      BY <3>3 DEF CreateToken, NoLogin
    <3> QED BY <2>5, <3>1, <3>2, <3>3 DEF LoginStep
  <2>6. ~ Crash
    BY <1>2 DEF Crash, NoLogin
  <2> QED BY <1>2, <2>2, <2>3, <2>4, <2>5, <2>6, HandlersFrame
<1>3. ASSUME NEW m \in Mutators, mutator'[m].pc = "refresh", NEW u \in Users
      PROVE  mutator'[m].snaps[u].granted = database'[u].granted
  <2> DEFINE q == mutator[m]
  <2>1. q \in Mutator
    OBVIOUS
  <2>2. CASE mutator'[m] = q
    <3>1. permissionRefreshMu = m
      BY <1>3, <2>2 DEF LockDiscipline
    <3>2. \A k \in Mutators : ~ CommitMutation(k)
      BY <1>3, <2>2, <3>1 DEF CommitMutation, LockDiscipline
    <3> QED BY <1>0, <1>3, <2>2, <3>2, GrantedStep DEF FreshSnapshots
  <2>3. CASE CollectSessions(m)
    <3>1. mutator'[m].snaps[u] = SnapshotOf(u) /\ UNCHANGED database
      BY <1>3, <2>3, MutatorCollects DEF CollectSessions
    <3> QED BY <3>1 DEF SnapshotOf
  <2>4. CASE \E t \in Tokens : RefreshSession(m, t)
    BY <2>4, MutatorSkips DEF RefreshSession, FreshSnapshots
  <2>5. MutatorStep(m) => CollectSessions(m) \/ \E t \in Tokens : RefreshSession(m, t)
    BY <1>3, LoopEntered
  <2>6. ~ Crash
    BY <1>3 DEF Crash, NoMutator
  <2> QED BY <1>3, <2>2, <2>3, <2>4, <2>5, <2>6, HandlersFrame
<1> QED BY <1>1, <1>2, <1>3 DEF FreshSnapshots

LEMMA AuthorityStep == AuthorityInv /\ [Next]_vars => AuthorityInv'
<1> SUFFICES ASSUME AuthorityInv, [Next]_vars PROVE AuthorityInv'
  OBVIOUS
<1>1. CopiesInv'
  BY CopiesStep DEF AuthorityInv
<1>2. LockDiscipline'
  BY LockStep DEF AuthorityInv, LockInv, CopiesInv
<1>3. ASSUME NEW t \in Tokens, session'[t] # None
      PROVE  Sound(session'[t], permVersion', database', Announced')
  <2>1. session'[t] \in Session
    BY <1>1, <1>3 DEF CopiesInv, TypeOK, StoreTypeOK
  <2> QED BY <1>3, <2>1, StoredSound, SoundStep
<1>4. ASSUME NEW r \in Requests, NEW c \in {request'[r].seen, request'[r].copy}, c # None
      PROVE  Sound(c, permVersion', database', Announced')
  <2>1. c \in Session
    BY <1>1, <1>4 DEF CopiesInv, TypeOK, Request
  <2>2. Sound(c, permVersion, database, Announced)
    <3>1. CASE RequestStep(r)
      BY <1>4, <3>1, RequestSound
    <3>2. CASE request'[r] = request[r]
      BY <1>4, <3>2 DEF AuthorityInv, Authorities
    <3>3. CASE Crash
      BY <1>4, <3>3 DEF Crash, NoRequest
    <3> QED BY <3>1, <3>2, <3>3, HandlersFrame DEF AuthorityInv, CopiesInv
  <2> QED BY <2>1, <2>2, SoundStep
<1>5. Authorities'
  BY <1>3, <1>4 DEF Authorities, Live
<1> QED BY <1>1, <1>2, <1>5, FreshStep DEF AuthorityInv

LEMMA AuthorityAlways == Spec => []AuthorityInv
<1>1. Init => AuthorityInv
  <2> SUFFICES ASSUME Init PROVE Authorities /\ FreshSnapshots /\ LockDiscipline
    BY CopiesInit DEF AuthorityInv
  <2> QED
    BY DEF Init, StoreInit, Authorities, FreshSnapshots, LockDiscipline, Live, NoRequest, NoLogin,
       NoMutator, LockedRequestPC
<1> QED BY <1>1, AuthorityStep, PTL DEF Spec

\* Comparing a session's permission version with the current one is enough to
\* authenticate (GetLoginUser): with the current version come the menu
\* permissions now in the database.
THEOREM CurrentVersionIsFreshAlways == Spec => []CurrentVersionIsFresh
<1>1. AuthorityInv => CurrentVersionIsFresh
  BY DEF AuthorityInv, Authorities, Sound, CurrentVersionIsFresh
<1> QED BY <1>1, AuthorityAlways, PTL

\* An accepted request's session has the current permission version.
LEMMA AcceptedVersion ==
    ASSUME AuthorityInv, NEW r \in Requests, RequestStep(r),
           request[r].pc # "accepted", request'[r].pc = "accepted"
    PROVE  request'[r].seen # None /\ request'[r].seen.version = permVersion[request'[r].seen.user]
<1> USE DEF AuthorityInv, CopiesInv, TypeOK
<1> DEFINE q == request[r]
           Goal == /\ request'[r].seen # None
                   /\ request'[r].seen.version = permVersion[request'[r].seen.user]
<1>1. q \in Request /\ None \notin Session
  BY NoneAssumption
<1>2. ~ Leave(r)
  BY DEF Leave, NoRequest
<1>3. ASSUME NEW pc, Goto(r, pc) PROVE pc = "accepted" /\ request'[r].seen = q.seen
  BY <1>1, <1>3 DEF Goto, Request
<1>4. ASSUME NEW t \in Tokens, Receive(r, t) PROVE FALSE
  BY <1>4 DEF Receive, NoRequest
<1>5. ASSUME CheckVersion(r) PROVE Goal
  <2>1. q.seen # None
    BY <1>5 DEF CheckVersion, Copies, RequestCopies
  <2> QED BY <1>2, <1>3, <1>5, <2>1 DEF CheckVersion
<1>6. ASSUME LockStale(r) PROVE FALSE
  BY <1>1, <1>2, <1>6 DEF LockStale, Request
<1>7. ASSUME ReadVersionLocked(r) PROVE Goal
  <2>1. ASSUME request' = [request EXCEPT ![r] = [@ EXCEPT !.pc = "accepted", !.seen = q.copy]]
        PROVE  request'[r].seen = q.copy
    BY <1>1, <2>1 DEF Request
  <2>2. ASSUME request' = [request EXCEPT ![r] =
                             [@ EXCEPT !.pc = "load", !.version = permVersion[q.copy.user]]]
        PROVE  FALSE
    BY <1>1, <2>2 DEF Request
  <2>3. q.copy # None
    BY <1>7, CopiesType, NoneAssumption DEF ReadVersionLocked
  <2> QED BY <1>2, <1>7, <2>1, <2>2, <2>3 DEF ReadVersionLocked
<1>8. ASSUME LoadSnapshot(r) PROVE FALSE
  <2> DEFINE n == SnapshotOf(UserOf(r))
             v == IF q.info THEN permVersion[UserOf(r)] ELSE q.version
  <2>1. ASSUME request' = [request EXCEPT ![r] = [@ EXCEPT !.pc = "write", !.snap = n, !.version = v]]
        PROVE  FALSE
    <3> HIDE DEF n, v
    <3> QED BY <1>1, <2>1 DEF Request
  <2> QED BY <1>3, <1>8, <2>1 DEF LoadSnapshot
<1>9. ASSUME WritePermissions(r) PROVE Goal
  <2> DEFINE updated == Updated(q.copy, q.version, q.snap)
             next == IF q.info THEN "handling" ELSE "accepted"
  <2>1. ASSUME request' = [request EXCEPT ![r] =
                             [@ EXCEPT !.seen = updated, !.copy = None, !.pc = next]]
        PROVE  request'[r].seen = updated
    <3> HIDE DEF updated, next
    <3> QED BY <1>1, <2>1 DEF Request
  <2>2. q.copy \in Session /\ q.snap \in Snapshot /\ q.version \in Nat
    BY <1>9, CopiesType DEF WritePermissions, Request
  <2>3. ASSUME UpdateSessionPermissions(q.token, q.copy, q.version, q.snap)
        PROVE  updated # None /\ updated.version = permVersion[updated.user]
    <3>1. updated \in Session
      BY <2>2 DEF Updated, Session
    <3> QED BY <1>1, <2>3, <3>1 DEF UpdateSessionPermissions, ReplaceResult, Updated
  <2> HIDE DEF updated
  <2> QED BY <1>3, <1>9, <2>1, <2>3 DEF WritePermissions, updated
<1>10. ASSUME Reread(r) PROVE FALSE
  <2> DEFINE n == SnapshotOf(UserOf(r))
             v == permVersion[UserOf(r)]
  <2>1. ASSUME request' = [request EXCEPT ![r] = [@ EXCEPT !.pc = "write", !.copy = session[q.token],
                             !.snap = n, !.version = v, !.tries = q.tries + 1]]
        PROVE  FALSE
    <3> HIDE DEF n, v
    <3> QED BY <1>1, <2>1 DEF Request
  <2> QED BY <1>3, <1>10, <2>1 DEF Reread
<1>11. ASSUME StartInfo(r) PROVE FALSE
  BY <1>1, <1>11 DEF StartInfo, Request
<1> QED
  BY <1>2, <1>3, <1>4, <1>5, <1>6, <1>7, <1>8, <1>9, <1>10, <1>11
     DEF RequestStep, CheckGeneration, CheckPending, CompensateRequest, RenewToken, Finish

\* A request is accepted only with the menu permissions in the database at that
\* moment (GetLoginUser).
THEOREM AcceptsCurrentAlways == Spec => AcceptsCurrent
<1> DEFINE Accepts == \A r \in Requests :
             request[r].pc # "accepted" /\ request'[r].pc = "accepted" =>
               request'[r].seen.snap.granted = database'[request'[r].seen.user].granted
<1>1. AuthorityInv /\ [Next]_vars => [Accepts]_vars
  <2> SUFFICES ASSUME AuthorityInv, Next, NEW r \in Requests,
                      request[r].pc # "accepted", request'[r].pc = "accepted"
               PROVE  request'[r].seen.snap.granted = database'[request'[r].seen.user].granted
    OBVIOUS
  <2>1. RequestStep(r)
    BY HandlersFrame DEF AuthorityInv, CopiesInv, Crash, NoRequest
  <2>2. UNCHANGED database
    BY <2>1, RequestFrame DEF AuthorityInv, CopiesInv
  <2> QED BY <2>1, <2>2, RequestSound, AcceptedVersion DEF Sound
<1> QED BY <1>1, AuthorityAlways, PTL DEF Spec, AcceptsCurrent

-----------------------------------------------------------------------------
(* Copies read under the lock.                                             *)

\* A step that stores a changed session is taken by the handler with the lock.
LEMMA LockedStore ==
    ASSUME LockInv, CopiesInv, [Next]_vars, NEW t \in Tokens, session'[t] \notin {session[t], None}
    PROVE  \/ permissionRefreshMu \in Logins
           \/ \E r \in Requests : permissionRefreshMu = r /\ WritePermissions(r)
           \/ \E m \in Mutators, x \in Tokens : permissionRefreshMu = m /\ RefreshSession(m, x)
  BY StoredStep DEF LockInv, LockDiscipline, LockedRequestPC, CreateToken, WritePermissions,
                    RefreshSession

\* A request that writes its snapshot leaves pc "write".
LEMMA WrittenMoves ==
    ASSUME CopiesInv, NEW r \in Requests, WritePermissions(r)
    PROVE  request'[r].pc \in {"handling", "accepted", "reread", "compensate"}
<1> USE DEF CopiesInv, TypeOK
<1> DEFINE q == request[r]
           updated == Updated(q.copy, q.version, q.snap)
           next == IF q.info THEN "handling" ELSE "accepted"
<1>1. q \in Request
  OBVIOUS
<1>2. ASSUME NEW pc, Goto(r, pc) PROVE request'[r].pc = pc
  BY <1>1, <1>2 DEF Goto, Request
<1>3. ASSUME request' = [request EXCEPT ![r] = [@ EXCEPT !.seen = updated, !.copy = None, !.pc = next]]
      PROVE  request'[r].pc = next
  <2> HIDE DEF updated, next
  <2> QED BY <1>1, <1>3 DEF Request
<1> QED BY <1>2, <1>3 DEF WritePermissions

\* A request's own step under the lock keeps or reads its copy.
LEMMA RequestKeepsCopy ==
    ASSUME AuthorityInv, LockedCopiesCurrent, NEW r \in Requests, RequestStep(r),
           request'[r].pc \in {"locked", "load", "write"}, ~ request'[r].info
    PROVE  session'[request'[r].token] \in {None, request'[r].copy}
<1> USE DEF AuthorityInv, CopiesInv, TypeOK, LockedCopiesCurrent
<1> DEFINE q == request[r]
           Goal == session'[request'[r].token] \in {None, request'[r].copy}
<1>1. q \in Request
  OBVIOUS
<1>2. ~ Leave(r)
  BY DEF Leave, NoRequest
<1>3. ASSUME NEW pc, Goto(r, pc) PROVE pc \in {"locked", "load", "write"}
  BY <1>1, <1>3 DEF Goto, Request
<1>4. ASSUME NEW t \in Tokens, Receive(r, t) PROVE FALSE
  BY <1>4 DEF Receive, NoRequest
<1>5. ASSUME LockStale(r) PROVE Goal
  <2>1. ASSUME request' = [request EXCEPT ![r] = [@ EXCEPT !.pc = "locked", !.copy = session[q.token]]]
        PROVE  request'[r].copy = session[q.token] /\ request'[r].token = q.token
    BY <1>1, <2>1 DEF Request
  <2> QED BY <1>2, <1>5, <2>1 DEF LockStale, storeVars
<1>6. ASSUME ReadVersionLocked(r) PROVE Goal
  <2>1. ASSUME request' = [request EXCEPT ![r] = [@ EXCEPT !.pc = "accepted", !.seen = q.copy]]
        PROVE  FALSE
    BY <1>1, <2>1 DEF Request
  <2>2. ASSUME request' = [request EXCEPT ![r] =
                             [@ EXCEPT !.pc = "load", !.version = permVersion[q.copy.user]]]
        PROVE  request'[r].copy = q.copy /\ request'[r].token = q.token /\ request'[r].info = q.info
    BY <1>1, <2>2 DEF Request
  <2> QED BY <1>2, <1>6, <2>1, <2>2 DEF ReadVersionLocked, storeVars
<1>7. CASE request'[r].pc = "write"
  BY <1>7, SnapshotRead DEF LoadSnapshot, Reread, storeVars
<1>8. ASSUME StartInfo(r) PROVE FALSE
  BY <1>1, <1>8 DEF StartInfo, Request
<1>9. ASSUME LoadSnapshot(r), request'[r].pc # "write" PROVE FALSE
  <2> DEFINE n == SnapshotOf(UserOf(r))
             v == IF q.info THEN permVersion[UserOf(r)] ELSE q.version
  <2>1. request' # [request EXCEPT ![r] = [@ EXCEPT !.pc = "write", !.snap = n, !.version = v]]
    <3> HIDE DEF n, v
    <3> QED BY <1>1, <1>9 DEF Request
  <2> QED BY <1>3, <1>9, <2>1 DEF LoadSnapshot
<1>10. ASSUME Reread(r), request'[r].pc # "write" PROVE FALSE
  <2> DEFINE n == SnapshotOf(UserOf(r))
             v == permVersion[UserOf(r)]
             k == q.tries + 1
  <2>1. request' # [request EXCEPT ![r] = [@ EXCEPT !.pc = "write", !.copy = session[q.token],
                      !.snap = n, !.version = v, !.tries = k]]
    <3> HIDE DEF n, v, k
    <3> QED BY <1>1, <1>10 DEF Request
  <2> QED BY <1>3, <1>10, <2>1 DEF Reread
<1>11. ~ WritePermissions(r) /\ ~ RenewToken(r)
  BY <1>7, WrittenMoves, RenewMoves
<1> QED
  BY <1>2, <1>3, <1>4, <1>5, <1>6, <1>7, <1>8, <1>9, <1>10, <1>11
     DEF RequestStep, CheckGeneration, CheckPending, CheckVersion, CompensateRequest, Finish

\* The loop of a permission change finds every session as it read it, or gone:
\* its retries are never used up by renewals (refreshOnlineUsersByIDLocked).
LEMMA LockedCopiesStep ==
    AuthorityInv /\ LockedCopiesCurrent /\ [Next]_vars => LockedCopiesCurrent'
<1> SUFFICES ASSUME AuthorityInv, LockedCopiesCurrent, [Next]_vars PROVE LockedCopiesCurrent'
  OBVIOUS
<1> USE HandlerAssumption DEF AuthorityInv, CopiesInv, TypeOK, LockedCopiesCurrent, LockDiscipline
<1>0. LockInv
  BY DEF LockInv
<1>1. ASSUME NEW m \in Mutators, NEW t \in Tokens, mutator'[m].copies[t] # None
      PROVE  session'[t] \in {None, mutator'[m].copies[t]}
  <2> DEFINE Goal == session'[t] \in {None, mutator'[m].copies[t]}
  <2>1. mutator[m].pc = "refresh" => permissionRefreshMu = m
    OBVIOUS
  <2>2. CASE mutator'[m] = mutator[m]
    <3>1. permissionRefreshMu = m
      BY <1>1, <2>1, <2>2 DEF Copies, MutatorCopies
    <3>2. session'[t] \in {session[t], None}
      <4>1. ASSUME NEW x \in Tokens, RefreshSession(m, x) PROVE FALSE
        <5>1. mutator[m].copies[x] # None
          BY <4>1 DEF RefreshSession
        <5>2. mutator'[m].copies[x] = None
          BY <4>1, MutatorSkips
        <5> QED BY <2>2, <5>1, <5>2
      <4>2. ASSUME NEW k \in Mutators, NEW x \in Tokens, RefreshSession(k, x) PROVE FALSE
        <5>1. k = m
          BY <3>1, <4>2 DEF RefreshSession
        <5> QED BY <4>1, <4>2, <5>1
      <4>3. permissionRefreshMu \notin Logins \cup Requests
        BY <3>1
      <4> QED BY <1>0, <4>2, <4>3, LockedStore
    <3> QED BY <1>1, <2>2, <3>2
  <2>3. CASE CollectSessions(m)
    <3>1. mutator[m].copies[t] = None
      BY <2>3 DEF CollectSessions, Copies, MutatorCopies
    <3>2. session' = session
      BY <2>3 DEF CollectSessions, CleanIndex, storeVars
    <3> QED BY <1>1, <2>3, <3>1, <3>2, MutatorCollects
  <2>4. ASSUME NEW x \in Tokens, RefreshSession(m, x) PROVE Goal
    <3>1. x # t
      BY <1>1, <2>4, MutatorSkips
    <3>2. session'[t] = session[t]
      BY <2>4, <3>1 DEF RefreshSession, UpdateSessionPermissions, StoreSession, StoreTypeOK, storeVars
    <3> QED BY <1>1, <2>4, <3>2, MutatorSkips
  <2>5. MutatorStep(m) => CollectSessions(m) \/ \E x \in Tokens : RefreshSession(m, x)
    BY <1>1, CopiesStep, LoopEntered DEF Copies, MutatorCopies
  <2>6. ~ Crash
    BY <1>1 DEF Crash, NoMutator
  <2> QED BY <2>2, <2>3, <2>4, <2>5, <2>6, HandlersFrame
<1>2. ASSUME NEW r \in Requests, request'[r].pc \in {"locked", "load", "write"}, ~ request'[r].info
      PROVE  session'[request'[r].token] \in {None, request'[r].copy}
  <2> DEFINE q == request[r]
             Goal == session'[request'[r].token] \in {None, request'[r].copy}
  <2>1. CASE request'[r] = q
    <3>1. permissionRefreshMu = r /\ q.token \in Tokens
      BY <1>2, <2>1, CopiesType DEF LockedRequestPC
    <3>2. ~ WritePermissions(r)
      BY <1>2, <2>1, WrittenMoves
    <3>3. session'[q.token] \in {session[q.token], None}
      BY <1>0, <3>1, <3>2, LockedStore
    <3> QED BY <1>2, <2>1, <3>3
  <2>2. CASE RequestStep(r)
    BY <1>2, <2>2, RequestKeepsCopy
  <2>3. ~ Crash
    BY <1>2 DEF Crash, NoRequest
  <2> QED BY <2>1, <2>2, <2>3, HandlersFrame
<1> QED BY <1>1, <1>2

\* What a permission change or a lazy refresh reads of a session under the lock
\* is still what is stored when it writes, or the session is gone.
THEOREM LockedCopiesCurrentAlways == Spec => []LockedCopiesCurrent
<1>1. Init => LockedCopiesCurrent
  BY DEF Init, LockedCopiesCurrent, NoMutator, NoRequest
<1>2. AuthorityInv /\ LockedCopiesCurrent /\ [Next]_vars => LockedCopiesCurrent'
  BY LockedCopiesStep
<1> QED BY <1>1, <1>2, AuthorityAlways, PTL DEF Spec

-----------------------------------------------------------------------------
(***************************************************************************)
(* What a session may outlive, for any number of users, tokens, handlers,  *)
(* failures and crashes: an account revocation only through the window     *)
(* between its two writes, a permission change never, a change of roles    *)
(* only if the login had read them before it.                              *)
(*                                                                         *)
(* The argument.  A session of user u has the credential of the account    *)
(* row, and no revocation of u waits for its database write, or its login  *)
(* read the generation in the window; the same holds of a login whose      *)
(* generation is still the current one (AccountInv).  It is kept because a *)
(* revocation changes the generation and deletes what is indexed in one    *)
(* step, and the row only afterwards.                                      *)
(***************************************************************************)

(* Where sessions come from.                                               *)

\* Only a login draws a token and records how its session came about.
LEMMA BirthFrame ==
    ASSUME CopiesInv, [Next]_vars, \A l \in Logins : ~ CreateToken(l)
    PROVE  UNCHANGED <<owner, born>>
<1> DEFINE Goal == UNCHANGED <<owner, born>>
<1>1. ASSUME NEW batch, RevokeBatch(batch) PROVE UNCHANGED owner
  BY <1>1 DEF RevokeBatch, RevokeSessions
<1>2. ASSUME NEW l \in Logins, LoginStep(l) PROVE Goal
  BY <1>2 DEF LoginStep, ReadGeneration, ReadUser, LoadMenus, ReadPermissionVersion, storeVars
<1>3. ASSUME NEW r \in Requests, RequestStep(r) PROVE Goal
  BY <1>1, <1>3 DEF RequestStep, Receive, CheckGeneration, CheckPending, CheckVersion, LockStale,
     ReadVersionLocked, LoadSnapshot, WritePermissions, Reread, CompensateRequest, RenewToken,
     StartInfo, Finish, DeleteSession, UpdateSessionPermissions, RenewSession, StoreSession,
     storeVars
<1>4. ASSUME NEW m \in Mutators, MutatorStep(m) PROVE Goal
  BY <1>1, <1>4 DEF MutatorStep, BeginMutation, AdvanceVersions, AdvancePermissionVersion,
     CommitMutation, CollectSessions, CleanIndex, RefreshSession, UpdateSessionPermissions,
     StoreSession, FinishMutation, CompensateMutation, storeVars
<1>5. ASSUME OtherStep PROVE Goal
  <2>1. ASSUME NEW w \in Revokers, RevokerStep(w) PROVE Goal
    BY <2>1 DEF RevokerStep, RevokeAccounts, WriteAccounts, RevokeSessions, storeVars
  <2>2. ASSUME NEW t \in Tokens, Logout(t) PROVE Goal
    BY <2>2 DEF Logout, DeleteSession
  <2>3. ASSUME Expire PROVE Goal
    BY <2>3 DEF Expire, ExpireSession, ExpireIndex, ExpireGeneration
  <2> QED BY <1>1, <1>5, <2>1, <2>2, <2>3 DEF OtherStep, Cleanup, vars, storeVars
<1>6. ASSUME Crash PROVE Goal
  BY <1>6 DEF Crash, storeVars
<1> QED BY <1>2, <1>3, <1>4, <1>5, <1>6, NextSteps

\* A stored session was stored before, for the same user and with the same
\* history, or a login has just created it.
LEMMA SessionOrigin ==
    ASSUME CopiesInv, [Next]_vars, NEW t \in Tokens, session'[t] # None
    PROVE  \/ /\ session[t] # None
              /\ session'[t].user = session[t].user
              /\ born'[t] = born[t]
           \/ \E l \in Logins :
                /\ CreateToken(l)
                /\ CreateResult(NewSession(l)) = "ok"
                /\ session'[t] = NewSession(l)
                /\ born'[t] = [credential |-> login[l].credential, window |-> login[l].window,
                               stale |-> login[l].snap # SnapshotOf(login[l].user)]
<1> USE DEF CopiesInv, TypeOK, StoreTypeOK
<1>1. CopiesInv'
  BY CopiesStep
<1>2. session'[t].user = owner'[t] /\ owner'[t] # None
  BY <1>1, NoneAssumption DEF StoreInv, SessionsIndexed, Live, Session
<1>3. session[t] # None => session[t].user = owner[t]
  BY DEF StoreInv, SessionsIndexed, Live
<1>4. owner[t] # None => session[t] # None
  BY StoreStep, NoResurrectionStep DEF Live, storeVars
<1>5. ASSUME NEW l \in Logins, CreateToken(l), owner'[t] = owner[t], owner[t] # None
      PROVE  born'[t] = born[t]
  BY <1>5 DEF CreateToken, CreateSession
<1>6. CASE owner'[t] = owner[t]
  BY <1>2, <1>3, <1>4, <1>5, <1>6, BirthFrame
<1>7. CASE owner'[t] # owner[t]
  <2>1. PICK l \in Logins : CreateToken(l)
    BY <1>7, BirthFrame
  <2>2. PICK x \in Tokens :
          /\ CreateSession(x, NewSession(l))
          /\ born' = [born EXCEPT ![x] =
               [credential |-> login[l].credential, window |-> login[l].window,
                stale |-> login[l].snap # SnapshotOf(login[l].user)]]
    BY <1>7, <2>1 DEF CreateToken, storeVars
  <2>3. x = t
    BY <1>7, <2>2 DEF CreateSession
  <2> QED BY <2>1, <2>2, <2>3 DEF CreateSession
<1> QED BY <1>6, <1>7

-----------------------------------------------------------------------------
(* The window of an account revocation.                                    *)

\* A revocation of u has been announced to Redis and waits for its database write.
Covered(u) == \E w \in Revokers : u \in revoker[w].users

\* What was authenticated with this credential of u is no older than its row,
\* and survives no revocation under way.
UpToDate(u, credential, db, rv) ==
    /\ credential = db[u].credential
    /\ \A w \in Revokers : u \notin rv[w].users

AccountInv ==
    /\ \A l \in Logins : login[l].pc # "idle" =>
         /\ login[l].generation <= generation[login[l].user]
         /\ login[l].generation = generation[login[l].user] =>
              login[l].window \/ UpToDate(login[l].user, login[l].credential, database, revoker)
    /\ \A t \in Tokens : Live(t) =>
         born[t].window \/ UpToDate(session[t].user, born[t].credential, database, revoker)

\* The three things a step can do to the account of u: revoke it, let the key of
\* its generation expire, or leave the generation alone, and then what is up to
\* date stays so unless a revocation was already under way.
Revoked(u) ==
    /\ generation'[u] = generation[u] + 1
    /\ \A t \in Tokens : session[t] # None /\ session[t].user = u => session'[t] = None

Expired(u) ==
    /\ \A l \in Logins : login'[l].user # u
    /\ \A t \in Tokens : session[t] # None => session[t].user # u
    /\ UNCHANGED session

Undisturbed(u) ==
    /\ generation'[u] = generation[u]
    /\ ~ Covered(u) => database'[u].credential = database[u].credential /\ ~ Covered(u)'

\* A batch of the revocation queue revokes some users and leaves the others alone.
LEMMA RevokeEffect ==
    ASSUME CopiesInv, NEW us \in SUBSET Users, RevokeSessions(us), NEW u \in Users
    PROVE  IF u \in us THEN Revoked(u) ELSE generation'[u] = generation[u]
<1> USE DEF CopiesInv, StoreInv, StoreTypeOK
<1>1. generation'[u] = IF u \in us THEN generation[u] + 1 ELSE generation[u]
  BY DEF RevokeSessions
<1>2. ASSUME NEW t \in Tokens, session[t] # None, session[t].user \in us PROVE session'[t] = None
  <2>1. t \in index[session[t].user]
    BY <1>2 DEF SessionsIndexed, Live
  <2> QED BY <1>2, <2>1 DEF RevokeSessions
<1> QED BY <1>1, <1>2 DEF Revoked

LEMMA BatchEffect ==
    ASSUME CopiesInv, NEW batch \in SUBSET Users, RevokeBatch(batch),
           UNCHANGED <<database, revoker>>, NEW u \in Users
    PROVE  Revoked(u) \/ Undisturbed(u)
<1>1. PICK hit \in SUBSET batch : RevokeSessions(hit)
  BY DEF RevokeBatch
<1>2. Covered(u)' = Covered(u)
  BY DEF Covered
<1> QED BY <1>1, <1>2, RevokeEffect DEF Undisturbed

LEMMA AccountStep ==
    ASSUME CopiesInv, [Next]_vars, NEW u \in Users
    PROVE  Revoked(u) \/ Expired(u) \/ Undisturbed(u)
<1> USE DEF CopiesInv, TypeOK, StoreTypeOK
<1> DEFINE Goal == Revoked(u) \/ Expired(u) \/ Undisturbed(u)
<1>1. ASSUME UNCHANGED <<generation, database, revoker>> PROVE Goal
  BY <1>1 DEF Undisturbed, Covered
<1>2. ASSUME NEW batch \in SUBSET Users, RevokeBatch(batch), UNCHANGED <<database, revoker>>
      PROVE  Goal
  BY <1>2, BatchEffect
<1>3. ASSUME NEW l \in Logins, LoginStep(l) PROVE Goal
  BY <1>1, <1>3 DEF LoginStep, ReadGeneration, ReadUser, LoadMenus, ReadPermissionVersion,
     CreateToken, CreateSession, storeVars
<1>4. ASSUME NEW r \in Requests, RequestStep(r) PROVE Goal
  <2>1. ASSUME CompensateRequest(r) PROVE Goal
    <3>1. PICK batch \in SUBSET Users : RevokeBatch(batch)
      BY <2>1, CopiesType DEF CompensateRequest
    <3> QED BY <1>2, <2>1, <3>1 DEF CompensateRequest
  <2> QED
    BY <1>1, <1>4, <2>1 DEF RequestStep, Receive, CheckGeneration, CheckPending, CheckVersion,
       LockStale, ReadVersionLocked, LoadSnapshot, WritePermissions, Reread, RenewToken, StartInfo,
       Finish, DeleteSession, UpdateSessionPermissions, RenewSession, StoreSession, storeVars
<1>5. ASSUME NEW m \in Mutators, MutatorStep(m) PROVE Goal
  <2>1. ASSUME CompensateMutation(m) PROVE Goal
    <3>1. pending \cup mutator[m].failed \in SUBSET Users
      BY DEF Mutator
    <3> QED BY <1>2, <2>1, <3>1 DEF CompensateMutation
  <2>2. ASSUME CommitMutation(m) PROVE Goal
    <3>1. database'[u].credential = database[u].credential
      <4>1. database[u] \in Account /\ Changed(mutator[m].users, mutator[m].kind)[u].credential
                                        = database[u].credential
        BY DEF Changed, Account
      <4> HIDE DEF Account
      <4> QED BY <2>2, <4>1 DEF CommitMutation
    <3> QED BY <2>2, <3>1 DEF CommitMutation, storeVars, Undisturbed, Covered
  <2> QED
    BY <1>1, <1>5, <2>1, <2>2 DEF MutatorStep, BeginMutation, AdvanceVersions,
       AdvancePermissionVersion, CollectSessions, CleanIndex, RefreshSession,
       UpdateSessionPermissions, StoreSession, FinishMutation, storeVars
<1>6. ASSUME NEW w \in Revokers, NEW us \in SUBSET Users, RevokeAccounts(w, us) PROVE Goal
  <2>1. CASE /\ revoker' = [revoker EXCEPT ![w] = [pc |-> "revoked", users |-> us]]
             /\ RevokeSessions(us)
    <3>1. u \in us => Revoked(u)
      BY <2>1, RevokeEffect
    <3>2. u \notin us => generation'[u] = generation[u] /\ (Covered(u)' => Covered(u))
      BY <2>1, RevokeEffect DEF Covered
    <3> QED BY <1>6, <3>1, <3>2 DEF RevokeAccounts, Undisturbed
  <2>2. CASE UNCHANGED revoker /\ \E part \in SUBSET us : RevokeSessions(part)
    BY <1>6, <2>2, RevokeEffect DEF RevokeAccounts, Undisturbed, Covered
  <2> QED BY <1>6, <2>1, <2>2 DEF RevokeAccounts
<1>7. ASSUME NEW w \in Revokers, WriteAccounts(w) PROVE Goal
  <2>1. Covered(u)' => Covered(u)
    BY <1>7 DEF WriteAccounts, Covered, NoRevoker
  <2>2. ~ Covered(u) => database'[u] = database[u]
    BY <1>7 DEF WriteAccounts, Covered
  <2> QED BY <1>7, <2>1, <2>2 DEF WriteAccounts, storeVars, Undisturbed
<1>8. ASSUME Expire PROVE Goal
  <2>1. ASSUME NEW x \in Users, \A l \in Logins : login[l].user # x, ExpireGeneration(x),
               UNCHANGED <<database, handlers>>
        PROVE  Goal
    <3>1. CASE x = u
      BY <2>1, <3>1 DEF ExpireGeneration, LiveOf, Live, Expired, handlers
    <3>2. CASE x # u
      BY <2>1, <3>2 DEF ExpireGeneration, Undisturbed, Covered, handlers
    <3> QED BY <3>1, <3>2
  <2> QED BY <1>1, <1>8, <2>1 DEF Expire, ExpireSession, ExpireIndex, handlers
<1>9. ASSUME Crash PROVE Goal
  BY <1>9 DEF Crash, storeVars, Undisturbed, Covered, NoRevoker
<1>10. ASSUME NEW t \in Tokens, Logout(t) PROVE Goal
  BY <1>1, <1>10 DEF Logout, DeleteSession, handlers
<1>11. ASSUME Cleanup PROVE Goal
  BY <1>2, <1>11 DEF Cleanup, handlers
<1> QED
  BY <1>1, <1>3, <1>4, <1>5, <1>6, <1>7, <1>8, <1>9, <1>10, <1>11, NextSteps
     DEF OtherStep, RevokerStep, vars, storeVars, handlers

\* What a login remembers of the account it has read in its first step.
LEMMA LoginKeeps ==
    ASSUME CopiesInv, NEW l \in Logins, LoginStep(l), login'[l].pc # "idle"
    PROVE  \/ /\ login[l].pc # "idle"
              /\ login'[l].user = login[l].user
              /\ login'[l].generation = login[l].generation
              /\ login'[l].credential = login[l].credential
              /\ login'[l].window = login[l].window
           \/ \E u \in Users :
                /\ UNCHANGED <<generation, database, revoker>>
                /\ login'[l].user = u
                /\ login'[l].generation = generation[u]
                /\ login'[l].credential = database[u].credential
                /\ login'[l].window = Covered(u)
<1> USE DEF CopiesInv, TypeOK
<1>1. login[l] \in Login
  OBVIOUS
<1>2. ASSUME NEW u \in Users, ReadGeneration(l, u)
      PROVE  /\ UNCHANGED <<generation, database, revoker>>
             /\ login'[l].user = u
             /\ login'[l].generation = generation[u]
             /\ login'[l].credential = database[u].credential
             /\ login'[l].window = Covered(u)
  <2> DEFINE g == generation[u]
             d == database[u].credential
             w == Covered(u)
  <2>1. login' = [login EXCEPT ![l] = [NoLogin EXCEPT !.pc = "user", !.user = u,
                    !.generation = g, !.credential = d, !.window = w]]
    BY <1>2, Zenon DEF ReadGeneration, Covered
  <2>2. /\ login'[l].user = u
        /\ login'[l].generation = g
        /\ login'[l].credential = d
        /\ login'[l].window = w
    <3> HIDE DEF g, d, w
    <3> QED BY <2>1, Zenon DEF NoLogin
  <2> QED BY <1>2, <2>2 DEF ReadGeneration, storeVars
<1> DEFINE Kept == /\ login[l].pc # "idle"
                   /\ login'[l].user = login[l].user
                   /\ login'[l].generation = login[l].generation
                   /\ login'[l].credential = login[l].credential
                   /\ login'[l].window = login[l].window
<1>3. ASSUME ReadUser(l) PROVE login'[l] = NoLogin \/ Kept
  BY <1>1, <1>3 DEF ReadUser, Login
<1>4. ASSUME LoadMenus(l) PROVE Kept
  BY <1>1, <1>4 DEF LoadMenus, Login
<1>5. ASSUME ReadPermissionVersion(l) PROVE login'[l] = NoLogin \/ Kept
  <2>1. ASSUME login'[l] = [login[l] EXCEPT !.pc = "create", !.version = permVersion[login[l].user]]
        PROVE  Kept
    BY <1>1, <1>5, <2>1 DEF ReadPermissionVersion, Login
  <2> QED BY <1>5, <2>1 DEF ReadPermissionVersion
<1>6. ~ CreateToken(l)
  BY DEF CreateToken, NoLogin
<1>7. login'[l] # NoLogin
  BY DEF NoLogin
<1> QED BY <1>2, <1>3, <1>4, <1>5, <1>6, <1>7 DEF LoginStep

\* A login that was at work before a step of somebody else.
LEMMA LoginAccountStep ==
    ASSUME CopiesInv, AccountInv, [Next]_vars, NEW l \in Logins, login[l].pc # "idle",
           login'[l].pc # "idle",
           login'[l].user = login[l].user, login'[l].generation = login[l].generation,
           login'[l].credential = login[l].credential, login'[l].window = login[l].window
    PROVE  /\ login'[l].generation <= generation'[login'[l].user]
           /\ login'[l].generation = generation'[login'[l].user] =>
                login'[l].window \/ UpToDate(login'[l].user, login'[l].credential, database', revoker')
<1> DEFINE u == login[l].user
<1>1. u \in Users /\ login[l].generation \in Nat /\ generation[u] \in Nat
  BY CopiesType DEF CopiesInv, TypeOK, StoreTypeOK, Login
<1>2. CASE Revoked(u)
  BY <1>1, <1>2 DEF AccountInv, Revoked
<1>3. CASE Undisturbed(u)
  BY <1>3 DEF AccountInv, Undisturbed, UpToDate, Covered
<1>4. ~ Expired(u)
  BY DEF Expired
<1> QED BY <1>1, <1>2, <1>3, <1>4, AccountStep

LEMMA AccountInvStep == CopiesInv /\ AccountInv /\ [Next]_vars => AccountInv'
<1> SUFFICES ASSUME CopiesInv, AccountInv, [Next]_vars PROVE AccountInv'
  OBVIOUS
<1>1. ASSUME NEW l \in Logins, login'[l].pc # "idle"
      PROVE  /\ login'[l].generation <= generation'[login'[l].user]
             /\ login'[l].generation = generation'[login'[l].user] =>
                  login'[l].window \/ UpToDate(login'[l].user, login'[l].credential, database', revoker')
  <2>1. CASE login'[l] = login[l]
    BY <1>1, <2>1, LoginAccountStep
  <2>2. ASSUME NEW u \in Users, UNCHANGED <<generation, database, revoker>>,
               login'[l].user = u, login'[l].generation = generation[u],
               login'[l].credential = database[u].credential, login'[l].window = Covered(u)
        PROVE  /\ login'[l].generation <= generation'[login'[l].user]
               /\ login'[l].window \/ UpToDate(login'[l].user, login'[l].credential, database', revoker')
    <3>1. generation[u] \in Nat
      BY DEF CopiesInv, TypeOK, StoreTypeOK
    <3> QED BY <2>2, <3>1 DEF UpToDate, Covered
  <2>3. CASE LoginStep(l)
    BY <1>1, <2>2, <2>3, LoginKeeps, LoginAccountStep
  <2>4. ~ Crash
    BY <1>1 DEF Crash, NoLogin
  <2> QED BY <2>1, <2>3, <2>4, HandlersFrame DEF CopiesInv
<1>2. ASSUME NEW t \in Tokens, session'[t] # None
      PROVE  born'[t].window \/ UpToDate(session'[t].user, born'[t].credential, database', revoker')
  <2>1. CASE /\ session[t] # None
             /\ session'[t].user = session[t].user
             /\ born'[t] = born[t]
    <3> DEFINE u == session[t].user
    <3>1. u \in Users
      BY <2>1 DEF CopiesInv, TypeOK, StoreTypeOK, Session
    <3>2. born[t].window \/ UpToDate(u, born[t].credential, database, revoker)
      BY <2>1 DEF AccountInv, Live
    <3>3. Undisturbed(u)
      BY <1>2, <2>1, <3>1, AccountStep DEF Revoked, Expired
    <3> QED BY <2>1, <3>2, <3>3 DEF Undisturbed, UpToDate, Covered
  <2>2. ASSUME NEW l \in Logins, CreateToken(l), CreateResult(NewSession(l)) = "ok",
               session'[t] = NewSession(l),
               born'[t] = [credential |-> login[l].credential, window |-> login[l].window,
                           stale |-> login[l].snap # SnapshotOf(login[l].user)]
        PROVE  born'[t].window \/ UpToDate(session'[t].user, born'[t].credential, database', revoker')
    <3>1. login[l].generation = generation[login[l].user] /\ login[l].pc # "idle"
      BY <2>2 DEF CreateToken, CreateResult, NewSession
    <3>2. login[l].window \/ UpToDate(login[l].user, login[l].credential, database, revoker)
      BY <3>1 DEF AccountInv
    <3>3. UNCHANGED <<database, revoker>> /\ session'[t].user = login[l].user
      BY <2>2 DEF CreateToken, NewSession
    <3> QED BY <2>2, <3>2, <3>3 DEF UpToDate, Covered
  <2> QED BY <1>2, <2>1, <2>2, SessionOrigin
<1> QED BY <1>1, <1>2 DEF AccountInv, Live

\* A session never outlives the account state it was authenticated against,
\* unless its login read the generation between a revocation and its database
\* write (RevokeUserSessions and its callers).
THEOREM RevokedOnlyFromWindowAlways == Spec => []RevokedOnlyFromWindow
<1>1. Init => AccountInv
  BY DEF Init, StoreInit, AccountInv, Live, NoLogin
<1>2. AccountInv => RevokedOnlyFromWindow
  BY DEF AccountInv, RevokedOnlyFromWindow, UpToDate
<1> QED BY <1>1, <1>2, AccountInvStep, CopiesAlways, PTL DEF Spec

-----------------------------------------------------------------------------
(* The refresh loop of a permission change.                                *)

\* What one turn of the loop makes of the session t, of copy c, and of the list
\* of users that have failed.
LEMMA LoopTurn ==
    ASSUME CopiesInv, NEW m \in Mutators, NEW t \in Tokens, RefreshSession(m, t)
    PROVE  LET q == mutator[m]
               c == q.copies[t]
           IN  /\ UNCHANGED permVersion
               /\ c \in Session
               /\ mutator'[m].users = q.users
               /\ \A x \in Tokens : x # t => session'[x] = session[x]
               /\ session'[t] # session[t] =>
                    session'[t] = Updated(c, q.versions[c.user], q.snaps[c.user])
               /\ \/ /\ session'[t].version = permVersion[session'[t].user]
                     /\ mutator'[m].failed = q.failed
                     /\ \A x \in Tokens : x # t => mutator'[m].copies[x] = q.copies[x]
                  \/ /\ mutator'[m].failed = q.failed \cup {c.user}
                     /\ \A x \in Tokens : \/ mutator'[m].copies[x] = q.copies[x]
                                          \/ q.copies[x].user = c.user
<1> USE DEF CopiesInv, TypeOK, StoreTypeOK
<1> DEFINE q == mutator[m]
           c == q.copies[t]
           u == c.user
           n == q.snaps[u]
           v == q.versions[u]
<1>1. q \in Mutator /\ c \in Session
  BY DEF RefreshSession, Mutator
<1>2. UNCHANGED permVersion
  BY DEF RefreshSession, UpdateSessionPermissions, StoreSession, storeVars
<1>3. ASSUME UpdateSessionPermissions(t, c, v, n)
      PROVE  /\ session' = [session EXCEPT ![t] = Updated(c, v, n)]
             /\ v = permVersion[u]
  BY <1>3 DEF UpdateSessionPermissions, StoreSession, ReplaceResult
<1>4. ASSUME mutator' = [mutator EXCEPT ![m].copies[t] = None]
      PROVE  /\ mutator'[m].users = q.users
             /\ mutator'[m].failed = q.failed
             /\ \A x \in Tokens : x # t => mutator'[m].copies[x] = q.copies[x]
  <2>1. mutator'[m] = [q EXCEPT !.copies[t] = None]
    BY <1>4
  <2>2. mutator'[m].copies = [q.copies EXCEPT ![t] = None]
    BY <1>1, <2>1 DEF Mutator
  <2>3. mutator'[m].users = q.users /\ mutator'[m].failed = q.failed
    BY <1>1, <2>1 DEF Mutator
  <2> QED BY <1>1, <2>2, <2>3 DEF Mutator
<1>5. ASSUME mutator' = [mutator EXCEPT ![m] = [@ EXCEPT !.failed = q.failed \cup {u},
                           !.copies = [x \in Tokens |-> IF x \in Unwritten(m, u) THEN None
                                                                                 ELSE q.copies[x]]]]
      PROVE  /\ mutator'[m].users = q.users
             /\ mutator'[m].failed = q.failed \cup {u}
             /\ \A x \in Tokens : mutator'[m].copies[x] = q.copies[x] \/ q.copies[x].user = u
  <2> DEFINE f == q.failed \cup {u}
             copies == [x \in Tokens |-> IF x \in Unwritten(m, u) THEN None ELSE q.copies[x]]
  <2>1. mutator' = [mutator EXCEPT ![m] = [@ EXCEPT !.failed = f, !.copies = copies]]
    BY <1>5, Zenon
  <2>2. /\ mutator'[m].users = q.users
        /\ mutator'[m].failed = f
        /\ mutator'[m].copies = copies
    <3> HIDE DEF f, copies
    <3> QED BY <1>1, <2>1 DEF Mutator
  <2>3. \A x \in Tokens : copies[x] = q.copies[x] \/ q.copies[x].user = u
    BY DEF Unwritten
  <2> QED BY <2>2, <2>3
<1>6. Updated(c, v, n).version = v /\ Updated(c, v, n).user = u
  BY DEF Updated
<1> HIDE DEF c, u, n, v
<1>7. CASE UpdateSessionPermissions(t, c, v, n) /\ mutator' = [mutator EXCEPT ![m].copies[t] = None]
  BY <1>1, <1>2, <1>3, <1>4, <1>6, <1>7 DEF c, u, n, v
<1>8. CASE /\ UpdateSessionPermissions(t, c, v, n) \/ UNCHANGED storeVars
           /\ mutator' = [mutator EXCEPT ![m] = [@ EXCEPT !.failed = q.failed \cup {u},
                           !.copies = [x \in Tokens |-> IF x \in Unwritten(m, u) THEN None
                                                                                 ELSE q.copies[x]]]]
  BY <1>1, <1>2, <1>3, <1>5, <1>8 DEF c, u, n, v, storeVars
<1> QED BY <1>7, <1>8 DEF RefreshSession, c, u, n, v

\* The users of a permission change are chosen when it begins.
LEMMA CollectKeepsUsers ==
    ASSUME TypeOK, NEW m \in Mutators, CollectSessions(m)
    PROVE  mutator'[m].users = mutator[m].users
<1> DEFINE q == mutator[m]
           snaps == [u \in Users |-> SnapshotOf(u)]
           copies == [x \in Tokens |-> IF \E u \in q.users : x \in index[u] THEN session[x] ELSE None]
<1>1. q \in Mutator
  BY DEF TypeOK
<1>2. ASSUME mutator' = [mutator EXCEPT ![m] =
                           [@ EXCEPT !.pc = "refresh", !.snaps = snaps, !.copies = copies]]
      PROVE  mutator'[m].users = q.users
  <2> HIDE DEF snaps, copies
  <2> QED BY <1>1, <1>2 DEF TypeOK, Mutator
<1>3. ASSUME NEW f, mutator' = [mutator EXCEPT ![m] = [@ EXCEPT !.pc = "compensate", !.failed = f]]
      PROVE  mutator'[m].users = q.users
  BY <1>1, <1>3 DEF TypeOK, Mutator
<1> QED BY <1>2, <1>3 DEF CollectSessions

\* What a permission change has read of the sessions of its users when it enters
\* the loop, or whom it lists as failed when it cannot read.
LEMMA LoopStart ==
    ASSUME CopiesInv, NEW m \in Mutators, CollectSessions(m),
           NEW t \in Tokens, session[t] # None, session[t].user \in mutator[m].users
    PROVE  mutator'[m].copies[t] = session[t] \/ session[t].user \in mutator'[m].failed
<1> USE DEF CopiesInv, TypeOK, StoreTypeOK
<1> DEFINE q == mutator[m]
           us == q.users
           snaps == [u \in Users |-> SnapshotOf(u)]
           copies == [x \in Tokens |-> IF \E u \in us : x \in index[u] THEN session[x] ELSE None]
<1>1. q \in Mutator
  OBVIOUS
<1>2. t \in index[session[t].user] /\ session[t].user \in us
  BY DEF StoreInv, SessionsIndexed, Live
<1>3. ASSUME mutator' = [mutator EXCEPT ![m] =
                           [@ EXCEPT !.pc = "refresh", !.snaps = snaps, !.copies = copies]]
      PROVE  mutator'[m].copies[t] = session[t]
  <2>1. mutator'[m].copies = copies
    <3> HIDE DEF snaps, copies
    <3> QED BY <1>1, <1>3 DEF Mutator
  <2> QED BY <1>2, <2>1
<1>4. ASSUME NEW f, session[t].user \in f,
             mutator' = [mutator EXCEPT ![m] = [@ EXCEPT !.pc = "compensate", !.failed = f]]
      PROVE  session[t].user \in mutator'[m].failed
  BY <1>1, <1>4 DEF Mutator
<1>5. session[t].user \in Online(us)
  BY <1>2 DEF Online, Live
<1> QED BY <1>2, <1>3, <1>4, <1>5 DEF CollectSessions

\* A permission change comes to its compensation from its reads or its loop.
LEMMA CompensationEntered ==
    ASSUME TypeOK, NEW m \in Mutators, MutatorStep(m), mutator'[m].pc = "compensate"
    PROVE  CollectSessions(m) \/ FinishMutation(m)
<1> USE DEF TypeOK
<1>1. mutator[m] \in Mutator
  OBVIOUS
<1>2. ~ Released(m)
  BY DEF Released, NoMutator
<1>3. ASSUME NEW us \in SUBSET Users, NEW kind \in Kinds, BeginMutation(m, us, kind) PROVE FALSE
  BY <1>1, <1>3 DEF BeginMutation, Mutator
<1>4. ~ AdvanceVersions(m)
  BY <1>1, <1>2 DEF AdvanceVersions, Mutator
<1>5. ~ CommitMutation(m)
  BY <1>1, <1>2 DEF CommitMutation, Mutator
<1>6. ASSUME NEW t \in Tokens, RefreshSession(m, t) PROVE FALSE
  BY <1>6, MutatorSkips
<1> QED BY <1>2, <1>3, <1>4, <1>5, <1>6 DEF MutatorStep, CompensateMutation

\* Versions are advanced by a permission change only, under the lock.
LEMMA VersionsStep ==
    ASSUME LockInv, CopiesInv, [Next]_vars
    PROVE  UNCHANGED permVersion \/ \E m \in Mutators : AdvanceVersions(m)
  BY AuthorityKept, CommitChanges

LEMMA NobodyForgottenStep ==
    LockInv /\ CopiesInv /\ NobodyForgotten /\ [Next]_vars => NobodyForgotten'
<1> SUFFICES ASSUME LockInv, CopiesInv, NobodyForgotten, [Next]_vars,
                    NEW m \in Mutators, NEW t \in Tokens,
                    mutator'[m].pc \in {"refresh", "compensate"}, session'[t] # None,
                    session'[t].user \in mutator'[m].users,
                    session'[t].version # permVersion'[session'[t].user]
             PROVE  mutator'[m].copies[t] # None \/ session'[t].user \in mutator'[m].failed
  BY DEF NobodyForgotten, Live
<1> USE HandlerAssumption, NoneAssumption DEF CopiesInv, TypeOK, StoreTypeOK
<1> DEFINE q == mutator[m]
           Goal == mutator'[m].copies[t] # None \/ session'[t].user \in mutator'[m].failed
<1>1. ASSUME q.pc \in {"refresh", "compensate"}, session'[t] = session[t],
             UNCHANGED permVersion, mutator'[m].users = q.users
      PROVE  q.copies[t] # None \/ session'[t].user \in q.failed
  BY <1>1 DEF NobodyForgotten, Live
<1>2. CASE mutator'[m] = q
  <2>1. permissionRefreshMu = m
    BY <1>2 DEF LockInv, LockDiscipline
  <2>2. \A k \in Mutators : ~ AdvanceVersions(k)
    BY <1>2, <2>1 DEF AdvanceVersions, LockInv, LockDiscipline
  <2>3. ASSUME NEW k \in Mutators, NEW x \in Tokens, RefreshSession(k, x) PROVE FALSE
    <3>1. k = m
      BY <2>1, <2>3 DEF RefreshSession, LockInv, LockDiscipline
    <3>2. RefreshSession(m, x)
      BY <2>3, <3>1
    <3>3. mutator'[m].copies[x] = None
      BY <3>2, MutatorSkips
    <3>4. q.copies[x] # None
      BY <3>2 DEF RefreshSession
    <3> QED BY <1>2, <3>3, <3>4
  <2>4. session'[t] = session[t]
    BY <2>1, <2>3, LockedStore
  <2>5. UNCHANGED permVersion
    BY <2>2, VersionsStep
  <2> QED BY <1>1, <1>2, <2>4, <2>5
<1>3. ASSUME CollectSessions(m) PROVE Goal
  <2>1. mutator'[m].users = q.users
    BY <1>3, CollectKeepsUsers
  <2>2. UNCHANGED session
    BY <1>3 DEF CollectSessions, CleanIndex, storeVars
  <2> QED BY <1>3, <2>1, <2>2, LoopStart
<1>4. ASSUME NEW x \in Tokens, RefreshSession(m, x) PROVE Goal
  <2> DEFINE c == q.copies[x]
  <2>1. /\ q.pc = "refresh" /\ c # None /\ c \in Session
        /\ UNCHANGED permVersion /\ mutator'[m].users = q.users
    BY <1>4, LoopTurn DEF RefreshSession
  <2>2. ASSUME NEW y \in Tokens, q.copies[y] # None, session'[y] # None,
               session'[y] = session[y] \/ y = x
        PROVE  session'[y].user = q.copies[y].user
    <3>1. owner[y] = q.copies[y].user
      BY <2>2 DEF Copies, MutatorCopies, Matches
    <3>2. CASE session'[y] = session[y]
      BY <2>2, <3>1, <3>2 DEF StoreInv, SessionsIndexed, Live
    <3>3. CASE y = x /\ session'[y] # session[y]
      <4>1. session'[x] = Updated(c, q.versions[c.user], q.snaps[c.user])
        BY <1>4, <3>3, LoopTurn
      <4> QED BY <3>3, <4>1 DEF Updated
    <3> QED BY <2>2, <3>2, <3>3
  <2>3. CASE t = x
    <3>1. session'[x].user = c.user
      BY <2>1, <2>2, <2>3
    <3>2. c.user \in mutator'[m].failed
      BY <1>4, <2>1, <2>3, LoopTurn
    <3> QED BY <2>3, <3>1, <3>2
  <2>4. CASE t # x
    <3>1. session'[t] = session[t]
      BY <1>4, <2>4, LoopTurn
    <3>2. q.copies[t] # None \/ session'[t].user \in q.failed
      BY <1>1, <2>1, <3>1
    <3>3. q.copies[t] # None => session'[t].user = q.copies[t].user
      BY <2>2, <3>1
    <3> QED BY <1>4, <2>4, <3>2, <3>3, LoopTurn
  <2> QED BY <2>3, <2>4
<1>5. ASSUME FinishMutation(m) PROVE Goal
  <2>1. mutator' = [mutator EXCEPT ![m] = [@ EXCEPT !.pc = "compensate"]]
    BY <1>5 DEF FinishMutation, Released, NoMutator
  <2>2. /\ mutator'[m].users = q.users
        /\ mutator'[m].copies = q.copies
        /\ mutator'[m].failed = q.failed
    BY <2>1 DEF Mutator
  <2> QED BY <1>1, <1>5, <2>2 DEF FinishMutation, storeVars
<1>6. ~ Crash
  BY DEF Crash, NoMutator
<1> QED
  BY <1>2, <1>3, <1>4, <1>5, <1>6, HandlersFrame, LoopEntered, CompensationEntered

\* One failure among several users or sessions loses none of the others: while a
\* change is propagated, whoever still has the old version is still to be written
\* or listed for revocation (refreshOnlineUsersByIDLocked).
THEOREM NobodyForgottenAlways == Spec => []NobodyForgotten
<1>1. Init => NobodyForgotten
  BY DEF Init, NobodyForgotten, NoMutator
<1>2. AuthorityInv => LockInv /\ CopiesInv
  BY DEF AuthorityInv, LockInv, CopiesInv
<1> QED BY <1>1, <1>2, NobodyForgottenStep, AuthorityAlways, PTL DEF Spec

-----------------------------------------------------------------------------
(* Roles.                                                                  *)

\* A snapshot about to be written over a session has the roles in the database.
\* A login's snapshot has not: it is read before the lock is taken.
FreshRoles ==
    /\ \A r \in Requests : request[r].pc = "write" =>
         request[r].snap.assigned = database[request[r].seen.user].assigned
    /\ \A m \in Mutators : mutator[m].pc = "refresh" =>
         \A u \in Users : mutator[m].snaps[u].assigned = database[u].assigned

RolesInv == FreshRoles /\ RolesStaleOnlyFromBirth

\* Only the commit of a permission change, under the lock, changes roles.
LEMMA AssignedStep ==
    ASSUME CopiesInv, [Next]_vars, \A m \in Mutators : ~ CommitMutation(m)
    PROVE  \A u \in Users : database'[u].assigned = database[u].assigned
<1> USE DEF CopiesInv, TypeOK
<1> DEFINE Goal == \A u \in Users : database'[u].assigned = database[u].assigned
<1>1. ASSUME NEW m \in Mutators, MutatorStep(m) PROVE Goal
  BY <1>1 DEF MutatorStep, BeginMutation, AdvanceVersions, CollectSessions, RefreshSession,
     FinishMutation, CompensateMutation
<1>2. ASSUME NEW w \in Revokers, RevokerStep(w) PROVE Goal
  BY <1>2 DEF RevokerStep, RevokeAccounts, WriteAccounts, Account
<1>3. ASSUME OtherStep PROVE Goal
  BY <1>2, <1>3 DEF OtherStep, Logout, Cleanup, Expire, vars
<1>4. ASSUME Crash PROVE Goal
  BY <1>4 DEF Crash
<1> QED BY <1>1, <1>3, <1>4, NextSteps, LoginFrame, RequestFrame

LEMMA FreshRolesStep == LockInv /\ CopiesInv /\ FreshRoles /\ [Next]_vars => FreshRoles'
<1> SUFFICES ASSUME LockInv, CopiesInv, FreshRoles, [Next]_vars PROVE FreshRoles'
  OBVIOUS
<1> USE HandlerAssumption DEF CopiesInv, TypeOK
<1>1. ASSUME NEW r \in Requests, request'[r].pc = "write"
      PROVE  request'[r].snap.assigned = database'[request'[r].seen.user].assigned
  <2> DEFINE q == request[r]
  <2>1. q.pc # "idle" => UserOf(r) = q.seen.user /\ q.seen.user \in Users
    BY CopiesType DEF Copies, RequestCopies, Matches, UserOf
  <2>2. CASE request'[r] = q
    <3>1. permissionRefreshMu = r
      BY <1>1, <2>2 DEF LockInv, LockDiscipline, LockedRequestPC
    <3>2. \A m \in Mutators : ~ CommitMutation(m)
      BY <3>1 DEF CommitMutation, LockInv, LockDiscipline
    <3>3. database'[q.seen.user].assigned = database[q.seen.user].assigned
      BY <1>1, <2>1, <2>2, <3>2, AssignedStep
    <3> QED BY <1>1, <2>2, <3>3 DEF FreshRoles
  <2>3. CASE RequestStep(r)
    <3>1. /\ request'[r].snap = SnapshotOf(UserOf(r))
          /\ request'[r].seen = q.seen
          /\ q.pc # "idle"
      BY <1>1, <2>3, SnapshotRead DEF LoadSnapshot, Reread
    <3>2. SnapshotOf(UserOf(r)).assigned = database[UserOf(r)].assigned
      BY DEF SnapshotOf
    <3> QED BY <2>1, <2>3, <3>1, <3>2, RequestFrame
  <2>4. ~ Crash
    BY <1>1 DEF Crash, NoRequest
  <2> QED BY <2>2, <2>3, <2>4, HandlersFrame
<1>2. ASSUME NEW m \in Mutators, mutator'[m].pc = "refresh", NEW u \in Users
      PROVE  mutator'[m].snaps[u].assigned = database'[u].assigned
  <2> DEFINE q == mutator[m]
  <2>1. CASE mutator'[m] = q
    <3>1. permissionRefreshMu = m
      BY <1>2, <2>1 DEF LockInv, LockDiscipline
    <3>2. \A k \in Mutators : ~ CommitMutation(k)
      BY <1>2, <2>1, <3>1 DEF CommitMutation, LockInv, LockDiscipline
    <3> QED BY <1>2, <2>1, <3>2, AssignedStep DEF FreshRoles
  <2>2. CASE CollectSessions(m)
    <3>1. mutator'[m].snaps[u] = SnapshotOf(u)
      BY <1>2, <2>2, MutatorCollects
    <3> QED BY <2>2, <3>1 DEF CollectSessions, SnapshotOf
  <2>3. ASSUME NEW t \in Tokens, RefreshSession(m, t)
        PROVE  mutator'[m].snaps[u].assigned = database'[u].assigned
    <3>1. mutator[m].pc = "refresh" /\ UNCHANGED database
      BY <2>3 DEF RefreshSession
    <3>2. mutator'[m].snaps = mutator[m].snaps
      BY <2>3, MutatorSkips
    <3> QED BY <3>1, <3>2 DEF FreshRoles
  <2>4. ~ Crash
    BY <1>2 DEF Crash, NoMutator
  <2> QED BY <1>2, <2>1, <2>2, <2>3, <2>4, HandlersFrame, LoopEntered
<1> QED BY <1>1, <1>2 DEF FreshRoles

\* A session that a step leaves alone, current after it, was current before it
\* and its user's roles have not changed.
LEMMA CurrentKept ==
    ASSUME AuthorityInv, [Next]_vars, NEW t \in Tokens, session[t] # None,
           session[t].version = permVersion'[session[t].user]
    PROVE  /\ session[t].version = permVersion[session[t].user]
           /\ database'[session[t].user].assigned = database[session[t].user].assigned
<1> DEFINE c == session[t]
           Goal == /\ c.version = permVersion[c.user]
                   /\ database'[c.user].assigned = database[c.user].assigned
<1>1. LockInv /\ CopiesInv
  BY DEF AuthorityInv, LockInv, CopiesInv
<1>2. c \in Session /\ c.user \in Users /\ c.version \in Nat /\ permVersion[c.user] \in Nat
  BY DEF AuthorityInv, CopiesInv, TypeOK, StoreTypeOK, Session
<1>3. Sound(c, permVersion, database, Announced)
  BY DEF AuthorityInv, Authorities, Live
<1>4. ASSUME NEW m \in Mutators, AdvanceVersions(m) PROVE Goal
  <2>1. database' = database /\ permVersion'[c.user] \in {permVersion[c.user], permVersion[c.user] + 1}
    BY <1>1, <1>2, <1>4, AdvanceAnnounces
  <2> QED BY <1>2, <1>3, <2>1 DEF Sound
<1>5. ASSUME NEW m \in Mutators, CommitMutation(m) PROVE Goal
  <2>1. permVersion' = permVersion /\ (c.user \notin Announced => database'[c.user] = database[c.user])
    BY <1>1, <1>2, <1>5, CommitChanges
  <2> QED BY <1>3, <2>1 DEF Sound
<1>6. ASSUME \A m \in Mutators : ~ AdvanceVersions(m) /\ ~ CommitMutation(m) PROVE Goal
  BY <1>1, <1>2, <1>6, VersionsStep, AssignedStep
<1> QED BY <1>4, <1>5, <1>6

\* A login stores for a token that has never been drawn.
LEMMA CreatedIsNew ==
    ASSUME CopiesInv, NEW l \in Logins, CreateToken(l), NEW t \in Tokens, session[t] # None
    PROVE  session'[t] = session[t]
<1> USE DEF CopiesInv, TypeOK, StoreTypeOK
<1>1. owner[t] # None
  BY NoneAssumption DEF StoreInv, SessionsIndexed, Live, Session
<1> QED BY <1>1 DEF CreateToken, CreateSession, storeVars

\* A refresh of a session writes the roles in the database.
LEMMA RefreshedRoles ==
    ASSUME AuthorityInv, FreshRoles, NEW t \in Tokens,
           session'[t] \notin {session[t], None},
           \/ \E r \in Requests : WritePermissions(r)
           \/ \E m \in Mutators, x \in Tokens : RefreshSession(m, x)
    PROVE  session'[t].snap.assigned = database'[session'[t].user].assigned
<1> USE DEF AuthorityInv, CopiesInv, TypeOK, StoreTypeOK
<1>1. ASSUME NEW c \in Session, NEW v \in Nat, NEW n \in Snapshot, NEW x \in Tokens,
             UpdateSessionPermissions(x, c, v, n), n.assigned = database[c.user].assigned,
             UNCHANGED database
      PROVE  session'[t].snap.assigned = database'[session'[t].user].assigned
  <2>1. session' = [session EXCEPT ![x] = Updated(c, v, n)]
    BY <1>1 DEF UpdateSessionPermissions, StoreSession
  <2>2. session'[t] = Updated(c, v, n)
    BY <2>1
  <2> QED BY <1>1, <2>2 DEF Updated
<1>2. ASSUME NEW r \in Requests, WritePermissions(r)
      PROVE  session'[t].snap.assigned = database'[session'[t].user].assigned
  <2> DEFINE q == request[r]
  <2>1. /\ q.token \in Tokens /\ q.copy \in Session /\ q.version \in Nat /\ q.snap \in Snapshot
        /\ q.seen \in Session /\ q.copy.user = q.seen.user
    BY <1>2, CopiesType DEF WritePermissions, Request, Copies, RequestCopies, Matches
  <2>2. q.snap.assigned = database[q.copy.user].assigned
    BY <1>2, <2>1 DEF WritePermissions, FreshRoles
  <2> QED BY <1>1, <1>2, <2>1, <2>2 DEF WritePermissions, storeVars
<1>3. ASSUME NEW m \in Mutators, NEW x \in Tokens, RefreshSession(m, x)
      PROVE  session'[t].snap.assigned = database'[session'[t].user].assigned
  <2> DEFINE c == mutator[m].copies[x]
             v == mutator[m].versions[c.user]
             n == mutator[m].snaps[c.user]
  <2>1. c \in Session /\ c.user \in Users /\ v \in Nat /\ n \in Snapshot
    <3>1. mutator[m] \in Mutator /\ c # None
      BY <1>3 DEF RefreshSession
    <3>2. c \in Session
      BY <3>1 DEF Mutator
    <3>3. c.user \in Users
      BY <3>2 DEF Session
    <3> QED BY <3>1, <3>2, <3>3 DEF Mutator
  <2>2. n.assigned = database[c.user].assigned
    BY <1>3, <2>1 DEF RefreshSession, FreshRoles
  <2> HIDE DEF c, v, n
  <2> QED BY <1>1, <1>3, <2>1, <2>2 DEF RefreshSession, storeVars, c, v, n
<1> QED BY <1>2, <1>3

LEMMA RolesStep == AuthorityInv /\ RolesInv /\ [Next]_vars => RolesInv'
<1> SUFFICES ASSUME AuthorityInv, RolesInv, [Next]_vars PROVE RolesInv'
  OBVIOUS
<1>1. LockInv /\ CopiesInv
  BY DEF AuthorityInv, LockInv, CopiesInv
<1>2. FreshRoles'
  BY <1>1, FreshRolesStep DEF RolesInv
<1>3. ASSUME NEW t \in Tokens, session'[t] # None,
             session'[t].version = permVersion'[session'[t].user],
             session'[t].snap.assigned # database'[session'[t].user].assigned
      PROVE  session'[t].revision = 0 /\ born'[t].stale
  <2>1. ASSUME NEW l \in Logins, CreateToken(l), session'[t] = NewSession(l),
               born'[t] = [credential |-> login[l].credential, window |-> login[l].window,
                           stale |-> login[l].snap # SnapshotOf(login[l].user)]
        PROVE  session'[t].revision = 0 /\ born'[t].stale
    <3>1. UNCHANGED database
      BY <2>1 DEF CreateToken
    <3>2. login[l].snap.assigned # database[login[l].user].assigned /\ session'[t].revision = 0
      BY <1>3, <2>1, <3>1 DEF NewSession
    <3>3. login[l].snap # SnapshotOf(login[l].user)
      BY <3>2 DEF SnapshotOf
    <3> DEFINE credential == login[l].credential
               window == login[l].window
               stale == login[l].snap # SnapshotOf(login[l].user)
    <3>4. born'[t].stale = stale
      <4>1. born'[t] = [credential |-> credential, window |-> window, stale |-> stale]
        BY <2>1, Zenon
      <4> HIDE DEF credential, window, stale
      <4> QED BY <4>1, SMT
    <3> QED BY <3>2, <3>3, <3>4, Zenon
  <2>2. CASE session[t] # None /\ born'[t] = born[t]
    <3>1. CASE session'[t] = session[t]
      BY <1>3, <2>2, <3>1, CurrentKept DEF RolesInv, RolesStaleOnlyFromBirth, Live
    <3>2. CASE session'[t] # session[t]
      <4>1. PICK l \in Logins : CreateToken(l)
        BY <1>1, <1>3, <3>2, StoredStep, RefreshedRoles DEF RolesInv
      <4>2. FALSE
        BY <1>1, <2>2, <3>2, <4>1, CreatedIsNew
      <4> QED BY <4>2
    <3> QED BY <3>1, <3>2
  <2> QED BY <1>1, <1>3, <2>1, <2>2, SessionOrigin
<1> QED BY <1>2, <1>3 DEF RolesInv, RolesStaleOnlyFromBirth, Live

\* Whoever's session is current has the roles in the database, but for a session
\* that was created with older ones and has not been refreshed since (Login).
THEOREM RolesStaleOnlyFromBirthAlways == Spec => []RolesStaleOnlyFromBirth
<1>1. Init => RolesInv
  BY DEF Init, StoreInit, RolesInv, FreshRoles, RolesStaleOnlyFromBirth, Live, NoRequest, NoMutator
<1>2. RolesInv => RolesStaleOnlyFromBirth
  BY DEF RolesInv
<1> QED BY <1>1, <1>2, RolesStep, AuthorityAlways, PTL DEF Spec

=============================================================================
