--------------------------- MODULE NdFrameworkProofs ---------------------------
(***************************************************************************)
(* Proofs about NdFramework, for any number of users, providers, addresses   *)
(* and changes.  Two locks carry the argument: of the users in the spin lock *)
(* there is one at most, and it alone counts, creates and destroys; of those *)
(* in a rebuild there is one at most, and what it has not brought up to date *)
(* yet is told by where it stands.                                           *)
(***************************************************************************)
EXTENDS NdFramework, FiniteSetTheorems, TLAPS

SpinStates == {"starting", "addref", "releasing", "destroying"}
LockStates == {"size", "enum", "rebuild", "ask", "again", "flush"}
CallStates == {"in", "poll", "provider", "address", "look"} \cup LockStates
UserStates == CallStates \cup {"cleanup", "releasing"}
States == {"out", "startup", "starting", "addref", "destroying"} \cup UserStates

Types ==
  /\ catalog \subseteq Providers /\ providerList \subseteq Providers
  /\ active \subseteq Providers /\ loaded \subseteq Providers
  /\ bound \in [Providers -> SUBSET Addresses]
  /\ addressList \subseteq Addresses \X Providers
  /\ adapters \subseteq Users \X Providers
  /\ armed \subseteq Requests /\ iocp \subseteq Requests
  /\ lost \subseteq Requests /\ missed \subseteq Requests
  /\ gInitializing \in {0, 1} /\ nRef \in Nat
  /\ framework \in {"null", "live", "freed"} /\ heap \in BOOLEAN
  /\ pc \in [Users -> States]
  /\ todo \subseteq Providers
  /\ len \in Nat /\ room \in Nat /\ grown \in BOOLEAN

\* The spin lock is closed by one user, and as long as that one is inside.
Spin ==
  /\ \A u \in Users : pc[u] \in SpinStates => gInitializing = 1
  /\ \A u, v \in Users : pc[u] \in SpinStates /\ pc[v] \in SpinStates => u = v
  /\ gInitializing = 1 => \E u \in Users : pc[u] \in SpinStates

\* The count is that of the users that are in between.
Count == nRef = Cardinality(Bracketed)

\* The framework lives as long as it has a user, and a deleted one is seen only
\* by the user that deletes it.
Life ==
  /\ \A u \in Users : pc[u] \in UserStates \cup {"addref"} => framework = "live"
  /\ \A u \in Users : pc[u] = "destroying" => framework = "freed"
  /\ framework = "freed" => \E u \in Users : pc[u] = "destroying"
  /\ framework = "live" => heap
  /\ framework = "null" => ~heap
  /\ framework # "live" => active = {} /\ addressList = {}

\* The lock belongs to the user that rebuilds or flushes.
Locked ==
  /\ lock \in Users \cup {Nobody}
  /\ \A u \in Users : pc[u] \in LockStates <=> lock = u

\* What the tables name is in the list: an address is of an active provider,
\* except between the reading of the catalogue and the rebuild.
Listed ==
  /\ active \subseteq providerList
  /\ \A x \in addressList : x[2] \in providerList
  /\ (\A u \in Users : pc[u] # "rebuild") => \A x \in addressList : x[2] \in active
  /\ \A u \in Users : pc[u] \in {"ask", "again"} => todo \subseteq active
  /\ \A u \in Users : pc[u] = "again" => asked \in todo

\* An adapter is of a user in a call or between two, and of a provider that is
\* listed and loaded.
Backed ==
  /\ \A x \in adapters : pc[x[1]] \in CallStates
  /\ \A x \in adapters : x[2] \in providerList \cap loaded

\* A change of this kind is known of and still to be handled, or never will be.
Pending(k) == k \in iocp \cup lost \/ \E u \in Users : pc[u] = k

\* No change can go unnoticed.
Watched == framework = "live" => \A k \in Requests : k \in armed \/ Pending(k)

\* The list is that of the catalogue, unless a change is pending or a rebuild has
\* failed, or is about to read the catalogue or to allow for its length.
CatalogCurrent ==
  /\ framework = "live" =>
       \/ Pending("provider") \/ "provider" \in missed
       \/ \E u \in Users : pc[u] \in {"size", "enum"}
       \/ active = catalog
  /\ \A u \in Users :
       pc[u] = "enum" => Pending("provider") \/ size = Cardinality(catalog)

Serving(ps) ==
  {x \in IPv4 \X Providers : x[2] \in ps /\ x[1] \in bound[x[2]]}

\* The IPv4 addresses of the table.
Listed4 == {x \in addressList : x[1] \in IPv4}

\* They are those of the active providers, of the ones asked already while they
\* are asked, with the same exceptions.
AddressesCurrent ==
  framework = "live" =>
    \/ Pending("address") \/ "address" \in missed
    \/ \E u \in Users : pc[u] = "rebuild"
    \/ (\E u \in Users : pc[u] \in {"ask", "again"})
       /\ Listed4 = Serving(active \ todo)
    \/ (\A u \in Users : pc[u] \notin {"ask", "again"})
       /\ Listed4 = Serving(active)

IInv ==
  /\ Types /\ Spin /\ Count /\ Life /\ Locked /\ Listed /\ Backed
  /\ Watched /\ CatalogCurrent /\ AddressesCurrent /\ LengthIsOfBuffer

-------------------------------------------------------------------------------

\* A user moves from a state among these to one among those.
Moves(u, from, to) == pc[u] \in from /\ \E t \in to : pc' = [pc EXCEPT ![u] = t]

\* A step of NdStartup or NdCleanup, of a user without adapters, that leaves the
\* framework's own state alone.
Outside ==
  /\ UNCHANGED <<windowsVars, portVars, lock, tableVars, loaded, adapters, localVars>>
  /\ framework' = "live" => framework = "live"
  /\ \E u \in Users :
       /\ \A x \in adapters : x[1] # u
       /\ Moves(u, (States \ CallStates) \cup {"in"}, (States \ CallStates) \cup {"in"})

\* A step within a call, or of none: the lock is all it can wait for.
Inside ==
  /\ UNCHANGED globalVars
  /\ \/ UNCHANGED <<pc, active, addressList>>
     \/ \E u \in Users : Moves(u, CallStates, CallStates)

\* The actions that the notifications are about.
Notifying ==
  \/ \E u \in Users, k \in Requests :
       Poll(u, k) \/ TakeLock(u, k) \/ NotificationFails(u, k)
  \/ \E p \in Providers : CatalogChange(p)
  \/ \E p \in Providers, a \in Addresses : AddressChange(p, a)

\* The other actions of a call, or of a user between two.
Working ==
  \E u \in Users :
    \/ Call(u) \/ PollEmpty(u)
    \/ EnumSize(u) \/ EnumFails(u) \/ EnumTooSmall(u) \/ Enum(u) \/ Rebuild(u)
    \/ \E p \in Providers :
         \/ Build(u, p) \/ Overflow(u, p) \/ NoMemory(u, p) \/ Outgrown(u, p)
         \/ QueryFails(u, p) \/ CloseAdapter(u, p)
    \/ AllAsked(u) \/ Flush(u) \/ LookUp(u) \/ FlushProvidersForUser(u)
    \/ \E a \in Addresses, v \in {1, 2} : OpenAdapter(u, a, v)

Within == Notifying \/ Working

\* A step is one of NdStartup's or NdCleanup's, or one within a call.
LEMMA Steps ==
  ASSUME [Next]_vars
  PROVE \/ \E u \in Users :
             \/ CallStartup(u) \/ Acquire(u, "startup", "starting")
             \/ Create(u) \/ StartupFails(u) \/ AddRef(u)
             \/ CallCleanup(u) \/ Acquire(u, "cleanup", "releasing")
             \/ Release(u) \/ Destroy(u)
        \/ Within
        \/ UNCHANGED vars
BY DEF Next, Proceed, Within, Notifying, Working

\* Within a call no user starts, ends or is counted.
LEMMA WithinIsInside == ASSUME Types, Within PROVE Inside
<1> USE DEF Inside, Moves, Goto
<1>1. ASSUME NEW u \in Users, Call(u) \/ PollEmpty(u) PROVE Inside
  BY <1>1 DEF Call, PollEmpty, CallStates, globalVars
<1>2. ASSUME NEW u \in Users, NEW k \in Requests, Poll(u, k) PROVE Inside
  BY <1>2 DEF Poll, Requests, CallStates, globalVars
<1>3. ASSUME NEW u \in Users, NEW k \in Requests, TakeLock(u, k) PROVE Inside
  BY <1>3 DEF TakeLock, AfterLock, Requests, CallStates, LockStates, globalVars
<1>4. ASSUME NEW u \in Users, EnumSize(u) \/ EnumTooSmall(u) \/ EnumFails(u)
      PROVE Inside
  BY <1>4 DEF EnumSize, EnumTooSmall, EnumFails, CallStates, LockStates, globalVars
<1>5. ASSUME NEW u \in Users, Enum(u) \/ Rebuild(u) \/ AllAsked(u) \/ Flush(u)
      PROVE Inside
  BY <1>5 DEF Enum, Rebuild, AllAsked, Flush, CallStates, LockStates, globalVars
<1>6. ASSUME NEW u \in Users, NEW p \in Providers, Build(u, p) \/ Overflow(u, p)
      PROVE Inside
  BY <1>6 DEF Build, IsAsked, Answered, Overflow, CallStates, LockStates, globalVars
<1>7. ASSUME NEW u \in Users, NEW p \in Providers,
             NoMemory(u, p) \/ Outgrown(u, p) \/ QueryFails(u, p)
      PROVE Inside
  BY <1>7 DEF NoMemory, Outgrown, QueryFails, IsAsked, Answered, CallStates,
     LockStates, globalVars
<1>8. ASSUME NEW u \in Users, LookUp(u) PROVE Inside
  BY <1>8 DEF LookUp, CallStates, globalVars
<1>9. ASSUME NEW u \in Users, NEW a \in Addresses, NEW v \in {1, 2},
             OpenAdapter(u, a, v)
      PROVE Inside
  BY <1>9 DEF OpenAdapter, CallStates, globalVars
<1>10. CASE UNCHANGED <<globalVars, pc, active, addressList>>
  BY <1>10
<1> QED
  BY <1>1, <1>2, <1>3, <1>4, <1>5, <1>6, <1>7, <1>8, <1>9, <1>10
  DEF Within, Notifying, Working, NotificationFails, CloseAdapter,
      FlushProvidersForUser, Flushed,
      CatalogChange, AddressChange, tableVars

\* Most of a call has nothing to do with the notifications.
LEMMA WorkingOnly ==
  ASSUME Types, Working
  PROVE /\ UNCHANGED <<windowsVars, portVars, globalVars>>
        /\ \/ pc' = pc
           \/ \E u \in Users : Moves(u, CallStates \ Requests, CallStates \ Requests)
<1> DEFINE Goal == /\ UNCHANGED <<windowsVars, portVars, globalVars>>
                   /\ \/ pc' = pc
                      \/ \E u \in Users : Moves(u, CallStates \ Requests,
                                                    CallStates \ Requests)
<1> USE DEF Moves, Goto, CallStates, LockStates, Requests
<1>1. ASSUME NEW u \in Users, Call(u) \/ PollEmpty(u) \/ LookUp(u) PROVE Goal
  BY <1>1 DEF Call, PollEmpty, LookUp
<1>2. ASSUME NEW u \in Users, EnumSize(u) \/ EnumTooSmall(u) \/ EnumFails(u)
      PROVE Goal
  BY <1>2 DEF EnumSize, EnumTooSmall, EnumFails
<1>3. ASSUME NEW u \in Users, Enum(u) \/ Rebuild(u) \/ AllAsked(u) \/ Flush(u)
      PROVE Goal
  BY <1>3 DEF Enum, Rebuild, AllAsked, Flush
<1>4. ASSUME NEW u \in Users, NEW p \in Providers, Build(u, p) \/ Overflow(u, p)
      PROVE Goal
  BY <1>4 DEF Build, IsAsked, Answered, Overflow
<1>5. ASSUME NEW u \in Users, NEW p \in Providers,
             NoMemory(u, p) \/ Outgrown(u, p) \/ QueryFails(u, p)
      PROVE Goal
  BY <1>5 DEF NoMemory, Outgrown, QueryFails, IsAsked, Answered
<1>6. ASSUME NEW u \in Users, NEW a \in Addresses, NEW v \in {1, 2},
             OpenAdapter(u, a, v)
      PROVE Goal
  BY <1>6 DEF OpenAdapter
<1>7. ASSUME NEW u \in Users, NEW p \in Providers, CloseAdapter(u, p) PROVE Goal
  BY <1>7 DEF CloseAdapter
<1>8. ASSUME NEW u \in Users, FlushProvidersForUser(u)
      PROVE Goal
  BY <1>8 DEF FlushProvidersForUser
<1> QED
  BY <1>1, <1>2, <1>3, <1>4, <1>5, <1>6, <1>7, <1>8 DEF Working

\* Of NdStartup and NdCleanup, only the creation and the release of the framework
\* touch its tables.
LEMMA OutsideSteps ==
  ASSUME IInv, NEW u \in Users,
         \/ CallStartup(u) \/ Acquire(u, "startup", "starting")
         \/ StartupFails(u) \/ AddRef(u)
         \/ CallCleanup(u) \/ Acquire(u, "cleanup", "releasing") \/ Destroy(u)
  PROVE Outside
<1> USE DEF IInv, Types, Backed, Outside, Moves, Goto
<1>1. CASE CallStartup(u) \/ CallCleanup(u)
  BY <1>1 DEF CallStartup, CallCleanup, globalVars, States, UserStates, CallStates,
     LockStates
<1>2. CASE Acquire(u, "startup", "starting") \/ Acquire(u, "cleanup", "releasing")
  BY <1>2 DEF Acquire, States, UserStates, CallStates, LockStates
<1>3. CASE StartupFails(u) \/ AddRef(u) \/ Destroy(u)
  BY <1>3 DEF StartupFails, AddRef, Destroy, States, UserStates, CallStates, LockStates
<1> QED
  BY <1>1, <1>2, <1>3

\* The spin lock is taken by a user that finds it open, and opened by that one.
LEMMA SpinStep == IInv /\ [Next]_vars => Spin'
<1> SUFFICES ASSUME IInv, [Next]_vars PROVE Spin'
  OBVIOUS
<1> USE DEF IInv, Types, Spin, SpinStates, States, UserStates, CallStates, LockStates,
       Goto
<1>1. ASSUME NEW u \in Users, CallStartup(u) \/ CallCleanup(u) PROVE Spin'
  BY <1>1 DEF CallStartup, CallCleanup, globalVars
<1>2. ASSUME NEW u \in Users,
             Acquire(u, "startup", "starting") \/ Acquire(u, "cleanup", "releasing")
      PROVE Spin'
  BY <1>2 DEF Acquire
<1>3. ASSUME NEW u \in Users, Create(u) PROVE Spin'
  BY <1>3 DEF Create
<1>4. ASSUME NEW u \in Users, StartupFails(u) PROVE Spin'
  BY <1>4 DEF StartupFails
<1>5. ASSUME NEW u \in Users, AddRef(u) PROVE Spin'
  BY <1>5 DEF AddRef
<1>6. ASSUME NEW u \in Users, Release(u) PROVE Spin'
  BY <1>6 DEF Release
<1>7. ASSUME NEW u \in Users, Destroy(u) PROVE Spin'
  BY <1>7 DEF Destroy
<1>8. CASE Inside
  BY <1>8 DEF Inside, Moves, globalVars
<1>9. CASE UNCHANGED vars
  BY <1>9 DEF vars, globalVars
<1> QED
  BY Steps, WithinIsInside, <1>1, <1>2, <1>3, <1>4, <1>5, <1>6, <1>7, <1>8, <1>9

\* The users in between are counted: the one that enters adds itself, the one that
\* leaves takes itself away.
LEMMA CountStep == IInv /\ [Next]_vars => Count'
<1> SUFFICES ASSUME IInv, [Next]_vars PROVE Count'
  OBVIOUS
<1>0. IsFiniteSet(Bracketed) /\ nRef = Cardinality(Bracketed) /\ nRef \in Nat
  BY FiniteAssumption, FS_Subset DEF IInv, Types, Count, Bracketed
<1> USE DEF IInv, Types, States, UserStates, CallStates, LockStates, Goto
<1>1. ASSUME NEW u \in Users, AddRef(u) PROVE Count'
  <2>1. nRef' = nRef + 1 /\ Bracketed' = Bracketed \cup {u} /\ u \notin Bracketed
    BY <1>1 DEF AddRef, Bracketed
  <2> QED
    BY <1>0, <2>1, FS_AddElement DEF Count
<1>2. ASSUME NEW u \in Users, Release(u) PROVE Count'
  <2>1. nRef' = nRef - 1 /\ Bracketed' = Bracketed \ {u} /\ u \in Bracketed
    BY <1>2 DEF Release, Bracketed
  <2> QED
    BY <1>0, <2>1, FS_RemoveElement DEF Count
<1>3. CASE nRef' = nRef /\ Bracketed' = Bracketed
  BY <1>0, <1>3 DEF Count
<1>4. ASSUME NEW u \in Users,
             \/ CallStartup(u) \/ Acquire(u, "startup", "starting")
             \/ Create(u) \/ StartupFails(u) \/ CallCleanup(u)
             \/ Acquire(u, "cleanup", "releasing") \/ Destroy(u)
      PROVE nRef' = nRef /\ Bracketed' = Bracketed
  BY <1>4 DEF CallStartup, Acquire, Create, StartupFails, CallCleanup, Destroy,
     globalVars, Bracketed
<1>5. CASE Inside
  BY <1>5, <1>3 DEF Inside, Moves, globalVars, Bracketed
<1>6. CASE UNCHANGED vars
  BY <1>6, <1>3 DEF vars, globalVars, Bracketed
<1> QED
  BY Steps, WithinIsInside, <1>1, <1>2, <1>3, <1>4, <1>5, <1>6

\* The last user is the only one when it deletes the framework.
LEMMA ReleaseLast ==
  ASSUME IInv, NEW u \in Users, Release(u)
  PROVE /\ nRef' = 0 => \A v \in Users : pc[v] \in UserStates => v = u
        /\ nRef' = 0 => adapters = {} /\ lock = Nobody
<1>1. IsFiniteSet(Bracketed) /\ nRef = Cardinality(Bracketed) /\ u \in Bracketed
  BY FiniteAssumption, FS_Subset DEF IInv, Count, Bracketed, Release
<1>2. IsFiniteSet(Bracketed \ {u}) /\ nRef' = Cardinality(Bracketed \ {u})
  BY <1>1, FS_RemoveElement DEF Release
<1>3. nRef' = 0 <=> Bracketed \ {u} = {}
  BY <1>2, FS_EmptySet
<1>4. \A v \in Users : v \in Bracketed <=> pc[v] \in UserStates
  BY DEF IInv, Types, Bracketed, States, UserStates, CallStates, LockStates
<1>5. pc[u] = "releasing"
  BY DEF Release, Goto
<1>6. nRef' = 0 => \A v \in Users : pc[v] \in UserStates => v = u
  BY <1>3, <1>4
<1>7. nRef' = 0 => adapters = {} /\ lock = Nobody
  BY <1>5, <1>6 DEF IInv, Types, Backed, Locked, UserStates, CallStates, LockStates
<1> QED
  BY <1>6, <1>7

\* The framework is created for the first user and deleted after the last.
LEMMA LifeStep == IInv /\ [Next]_vars => Life'
<1> SUFFICES ASSUME IInv, [Next]_vars PROVE Life'
  OBVIOUS
<1> USE DEF IInv, Types, Spin, Life, SpinStates, States, UserStates, CallStates,
            LockStates, Goto
<1>1. ASSUME NEW u \in Users, CallStartup(u) \/ CallCleanup(u) PROVE Life'
  BY <1>1 DEF CallStartup, CallCleanup, globalVars, tableVars
<1>2. ASSUME NEW u \in Users,
             Acquire(u, "startup", "starting") \/ Acquire(u, "cleanup", "releasing")
      PROVE Life'
  BY <1>2 DEF Acquire, tableVars
<1>3. ASSUME NEW u \in Users, Create(u) PROVE Life'
  BY <1>3 DEF Create, tableVars
<1>4. ASSUME NEW u \in Users, StartupFails(u) PROVE Life'
  BY <1>4 DEF StartupFails, tableVars
<1>5. ASSUME NEW u \in Users, AddRef(u) PROVE Life'
  BY <1>5 DEF AddRef, tableVars
<1>6. ASSUME NEW u \in Users, Release(u) PROVE Life'
  <2>1. CASE nRef' = 0
    BY <1>6, <2>1, ReleaseLast DEF Release, Destroyed
  <2>2. CASE nRef' # 0
    BY <1>6, <2>2 DEF Release, tableVars
  <2> QED
    BY <2>1, <2>2
<1>7. ASSUME NEW u \in Users, Destroy(u) PROVE Life'
  BY <1>7 DEF Destroy, tableVars
<1>8. CASE Inside
  BY <1>8 DEF Inside, Moves, globalVars
<1>9. CASE UNCHANGED vars
  BY <1>9 DEF vars, globalVars, tableVars
<1> QED
  BY Steps, WithinIsInside, <1>1, <1>2, <1>3, <1>4, <1>5, <1>6, <1>7, <1>8, <1>9

\* The lock is taken by a user that finds it free, who alone enters a rebuild and
\* sets it free again.
LEMMA LockedStep == IInv /\ [Next]_vars => Locked'
<1> SUFFICES ASSUME IInv, [Next]_vars PROVE Locked'
  OBVIOUS
<1> USE UsersAssumption
        DEF IInv, Types, Locked, States, UserStates, CallStates, LockStates, Goto
<1>1. ASSUME NEW u \in Users, NEW k \in Requests, TakeLock(u, k) PROVE Locked'
  BY <1>1 DEF TakeLock, AfterLock, Requests
<1>2. ASSUME NEW u \in Users, Flush(u) PROVE Locked'
  BY <1>2 DEF Flush
<1>3. ASSUME NEW u \in Users, EnumSize(u) \/ EnumTooSmall(u) \/ EnumFails(u)
      PROVE Locked'
  BY <1>3 DEF EnumSize, EnumTooSmall, EnumFails
<1>4. ASSUME NEW u \in Users, Enum(u) \/ Rebuild(u) \/ AllAsked(u) PROVE Locked'
  BY <1>4 DEF Enum, Rebuild, AllAsked
<1>5. ASSUME NEW u \in Users, NEW p \in Providers, Build(u, p) \/ Overflow(u, p)
      PROVE Locked'
  BY <1>5 DEF Build, IsAsked, Answered, Overflow
<1>6. ASSUME NEW u \in Users, NEW p \in Providers,
             NoMemory(u, p) \/ Outgrown(u, p) \/ QueryFails(u, p)
      PROVE Locked'
  BY <1>6 DEF NoMemory, Outgrown, QueryFails, IsAsked, Answered
<1>7. ASSUME NEW u \in Users, Call(u) \/ PollEmpty(u) \/ LookUp(u) PROVE Locked'
  BY <1>7 DEF Call, PollEmpty, LookUp
<1>8. ASSUME NEW u \in Users, NEW k \in Requests, Poll(u, k) PROVE Locked'
  BY <1>8 DEF Poll, Requests
<1>9. ASSUME NEW u \in Users, NEW a \in Addresses, NEW v \in {1, 2},
             OpenAdapter(u, a, v)
      PROVE Locked'
  BY <1>9 DEF OpenAdapter
<1>10. ASSUME NEW u \in Users, Create(u) \/ Release(u) PROVE Locked'
  BY <1>10 DEF Create, Release
<1>11. CASE Outside
  BY <1>11 DEF Outside, Moves
<1>12. CASE UNCHANGED <<lock, pc>>
  BY <1>12
<1> HIDE DEF IInv, Types, Locked, States, UserStates, CallStates, LockStates, Goto
<1> QED
  BY Steps, OutsideSteps, <1>1, <1>2, <1>3, <1>4, <1>5, <1>6, <1>7, <1>8, <1>9,
     <1>10, <1>11, <1>12
  DEF Within, Notifying, Working, NotificationFails, CloseAdapter,
      FlushProvidersForUser, Flushed,
      CatalogChange, AddressChange, vars

\* The tables name providers that are listed, because what deletes a provider
\* spares the active ones, and what makes one inactive rebuilds the addresses.
LEMMA ListedStep == IInv /\ [Next]_vars => Listed'
<1> SUFFICES ASSUME IInv, [Next]_vars PROVE Listed'
  OBVIOUS
<1> USE UsersAssumption
        DEF IInv, Types, Life, Locked, Listed, States, UserStates, CallStates,
            LockStates, Goto
<1>1. ASSUME NEW u \in Users, Create(u) PROVE Listed'
  BY <1>1 DEF Create, tableVars, localVars
<1>2. ASSUME NEW u \in Users, Release(u) PROVE Listed'
  <2>1. CASE nRef' = 0
    BY <1>2, <2>1, ReleaseLast DEF Release, Destroyed
  <2>2. CASE nRef' # 0
    BY <1>2, <2>2 DEF Release, tableVars, localVars
  <2> QED
    BY <2>1, <2>2
<1>3. ASSUME NEW u \in Users, Enum(u) PROVE Listed'
  BY <1>3 DEF Enum, localVars
<1>4. ASSUME NEW u \in Users, Rebuild(u) PROVE Listed'
  BY <1>4 DEF Rebuild
<1>5. ASSUME NEW u \in Users, NEW p \in Providers,
             Build(u, p) \/ NoMemory(u, p) \/ Outgrown(u, p) \/ QueryFails(u, p)
      PROVE Listed'
  <2>1. /\ p \in active /\ pc[u] \in {"ask", "again"} /\ todo \subseteq active
        /\ pc' = [pc EXCEPT ![u] = "ask"]
        /\ todo' = todo \ {p} /\ UNCHANGED <<providerList, active>>
        /\ \E addresses \in SUBSET Addresses : 
             addressList' = addressList \cup (addresses \X {p})
    BY <1>5 DEF Build, NoMemory, Outgrown, QueryFails, IsAsked, Answered
  <2>2. \A v \in Users : pc[v] \in {"ask", "again", "rebuild"} => v = u
    BY <2>1
  <2> QED
    BY <2>1, <2>2
<1>6. ASSUME NEW u \in Users, NEW p \in Providers, Overflow(u, p) PROVE Listed'
  BY <1>6 DEF Overflow, tableVars
<1>7. ASSUME NEW u \in Users, Flush(u) PROVE Listed'
  BY <1>7 DEF Flush, Flushed
<1>8. ASSUME NEW u \in Users, FlushProvidersForUser(u) PROVE Listed'
  BY <1>8 DEF FlushProvidersForUser, Flushed, localVars
<1>9. ASSUME NEW u \in Users, NEW k \in Requests, TakeLock(u, k) PROVE Listed'
  BY <1>9 DEF TakeLock, AfterLock, Requests, tableVars, localVars
<1>10. ASSUME NEW u \in Users,
              \/ Call(u) \/ PollEmpty(u) \/ EnumSize(u) \/ EnumTooSmall(u)
              \/ AllAsked(u) \/ LookUp(u)
       PROVE Listed'
  BY <1>10 DEF Call, PollEmpty, EnumSize, EnumTooSmall, AllAsked, LookUp, tableVars,
     localVars
<1>11. ASSUME NEW u \in Users, EnumFails(u) PROVE Listed'
  BY <1>11 DEF EnumFails, localVars
<1>12. ASSUME NEW u \in Users, NEW k \in Requests, Poll(u, k) PROVE Listed'
  BY <1>12 DEF Poll, Requests, tableVars, localVars
<1>13. ASSUME NEW u \in Users, NEW a \in Addresses, NEW v \in {1, 2},
              OpenAdapter(u, a, v)
       PROVE Listed'
  BY <1>13 DEF OpenAdapter, tableVars, localVars
<1>14. CASE Outside
  BY <1>14 DEF Outside, Moves, tableVars, localVars
<1>15. CASE UNCHANGED <<tableVars, localVars, pc>>
  BY <1>15 DEF tableVars, localVars
<1> HIDE DEF IInv, Types, Life, Locked, Listed, States, UserStates, CallStates,
       LockStates, Goto
<1> QED
  BY Steps, OutsideSteps, <1>1, <1>2, <1>3, <1>4, <1>5, <1>6, <1>7, <1>8, <1>9,
     <1>10, <1>11, <1>12, <1>13, <1>14, <1>15
  DEF Within, Notifying, Working, NotificationFails, CloseAdapter, CatalogChange,
      AddressChange, vars

\* An open adapter keeps its provider: what unloads a DLL or deletes a provider asks
\* first whether an object of it is left.
LEMMA BackedStep == IInv /\ [Next]_vars => Backed'
<1> SUFFICES ASSUME IInv, [Next]_vars PROVE Backed'
  OBVIOUS
<1> USE DEF IInv, Types, Life, Listed, Backed, States, UserStates, CallStates,
            LockStates, Goto
<1>0. \A p \in Providers : Idle(p) => \A x \in adapters : x[2] # p
  BY DEF Idle
<1>1. ASSUME NEW u \in Users, Create(u) PROVE Backed'
  BY <1>1 DEF Create, tableVars
<1>2. ASSUME NEW u \in Users, Release(u) PROVE Backed'
  <2>1. CASE nRef' = 0
    BY <1>2, <2>1, ReleaseLast DEF Release
  <2>2. CASE nRef' # 0
    BY <1>2, <2>2 DEF Release, tableVars
  <2> QED
    BY <2>1, <2>2
<1>3. ASSUME NEW u \in Users, Enum(u) PROVE Backed'
  BY <1>3 DEF Enum
<1>4. ASSUME NEW u \in Users, NEW p \in Providers,
             \/ Build(u, p) \/ NoMemory(u, p) \/ Outgrown(u, p) \/ QueryFails(u, p)
             \/ Overflow(u, p)
      PROVE Backed'
  <2>1. /\ loaded' = Unloaded({p}) /\ UNCHANGED <<providerList, adapters>>
        /\ Moves(u, CallStates, CallStates)
    BY <1>4 DEF Build, NoMemory, Outgrown, QueryFails, Overflow, IsAsked, Answered,
       tableVars, Moves
  <2> QED
    BY <1>0, <2>1 DEF Unloaded, Moves
<1>5. ASSUME NEW u \in Users, Flush(u) \/ FlushProvidersForUser(u) PROVE Backed'
  <2>1. Flushed /\ adapters' = adapters
        /\ (pc' = pc \/ Moves(u, CallStates, CallStates))
    BY <1>5 DEF Flush, FlushProvidersForUser, Moves
  <2> QED
    BY <1>0, <2>1 DEF Flushed, Unloaded, Moves
<1>6. ASSUME NEW u \in Users, LookUp(u) PROVE Backed'
  BY <1>0, <1>6 DEF LookUp, Unloaded, tableVars
<1>7. ASSUME NEW u \in Users, NEW a \in Addresses, NEW v \in {1, 2},
             OpenAdapter(u, a, v)
      PROVE Backed'
  <2>1. PICK p \in Candidates(a, v), tried \in SUBSET Candidates(a, v) :
          adapters' = adapters \cup {<<u, p>>} /\ loaded' = Opened(p, tried)
    BY <1>7 DEF OpenAdapter
  <2>2. p \in Providers /\ p \in providerList /\ tried \subseteq Providers
    BY DEF Candidates
  <2>3. providerList' = providerList /\ pc' = [pc EXCEPT ![u] = "in"] /\ pc[u] = "look"
    BY <1>7 DEF OpenAdapter, tableVars
  <2>4. \A x \in adapters : x[2] \in loaded'
    BY <1>0, <2>1, <2>2 DEF Opened, Unloaded
  <2> QED
    BY <2>1, <2>2, <2>3, <2>4 DEF Opened
<1>8. ASSUME NEW u \in Users, NEW p \in Providers, CloseAdapter(u, p) PROVE Backed'
  BY <1>8 DEF CloseAdapter, tableVars
<1>9. CASE Outside
  BY <1>9 DEF Outside, Moves, tableVars
<1>10. CASE UNCHANGED <<providerList, loaded, adapters>> /\ Inside
  BY <1>10 DEF Inside, Moves
<1>11. CASE UNCHANGED vars
  BY <1>11 DEF vars, tableVars
<1> HIDE DEF IInv, Types, Life, Listed, Backed, States, UserStates, CallStates,
             LockStates, Goto
<1>12. Types
  BY DEF IInv
<1> QED
  BY Steps, OutsideSteps, WithinIsInside, <1>1, <1>2, <1>3, <1>4, <1>5, <1>6, <1>7,
     <1>8, <1>9, <1>10, <1>11, <1>12
  DEF Within, Notifying, Working, Call, PollEmpty, Poll, TakeLock, NotificationFails,
      EnumSize, EnumFails,
      EnumTooSmall, Rebuild, AllAsked, CatalogChange, AddressChange, tableVars

\* A change finds its notification requested, or a notification that is already
\* there; the user that takes one off the port requests the next before it looks.
LEMMA WatchedStep == IInv /\ [Next]_vars => Watched'
<1> SUFFICES ASSUME IInv, [Next]_vars PROVE Watched'
  OBVIOUS
<1> USE DEF IInv, Types, Life, Watched, Pending, States, UserStates, CallStates,
            LockStates, Requests, Goto
<1>1. ASSUME NEW u \in Users, Create(u) PROVE Watched'
  BY <1>1 DEF Create
<1>2. ASSUME NEW u \in Users, Release(u) PROVE Watched'
  BY <1>2 DEF Release, portVars
<1>3. ASSUME NEW u \in Users, NEW k \in Requests, Poll(u, k) PROVE Watched'
  BY <1>3 DEF Poll, globalVars
<1>4. ASSUME NEW u \in Users, NEW k \in Requests, TakeLock(u, k) PROVE Watched'
  BY <1>4 DEF TakeLock, AfterLock, globalVars
<1>5. ASSUME NEW u \in Users, NEW k \in Requests, NotificationFails(u, k)
      PROVE Watched'
  BY <1>5 DEF NotificationFails, globalVars
<1>6. ASSUME NEW p \in Providers, CatalogChange(p) PROVE Watched'
  BY <1>6 DEF CatalogChange, Notify, globalVars
<1>7. ASSUME NEW p \in Providers, NEW a \in Addresses, AddressChange(p, a)
      PROVE Watched'
  BY <1>7 DEF AddressChange, Notify, portVars, globalVars
<1>8. CASE Outside
  BY <1>8 DEF Outside, Moves, portVars
<1>9. CASE Working
  <2>1. /\ UNCHANGED <<portVars, globalVars>>
        /\ \/ pc' = pc
           \/ \E u \in Users : Moves(u, CallStates \ Requests, CallStates \ Requests)
    BY <1>9, WorkingOnly
  <2> QED
    BY <2>1 DEF Moves, portVars, globalVars
<1>10. CASE UNCHANGED vars
  BY <1>10 DEF vars, portVars, globalVars
<1> QED
  BY Steps, OutsideSteps, <1>1, <1>2, <1>3, <1>4, <1>5, <1>6, <1>7, <1>8, <1>9, <1>10
  DEF Within, Notifying

\* The list is the catalogue that was read after its next notification had been
\* requested, so that a later change is pending; one between the two readings shows
\* in the length.
LEMMA CatalogStep == IInv /\ [Next]_vars => CatalogCurrent'
<1> SUFFICES ASSUME IInv, [Next]_vars PROVE CatalogCurrent'
  OBVIOUS
<1> USE DEF IInv, Types, Life, Locked, Watched, CatalogCurrent, Pending, States,
            UserStates, CallStates, LockStates, Requests, Goto
<1>1. ASSUME NEW u \in Users, Create(u) PROVE CatalogCurrent'
  BY <1>1 DEF Create
<1>2. ASSUME NEW u \in Users, Release(u) PROVE CatalogCurrent'
  <2>1. CASE nRef' = 0
    BY <1>2, <2>1, ReleaseLast DEF Release
  <2>2. CASE nRef' # 0
    BY <1>2, <2>2 DEF Release, windowsVars, portVars, tableVars, localVars
  <2> QED
    BY <2>1, <2>2
<1>3. ASSUME NEW u \in Users, NEW k \in Requests, Poll(u, k) PROVE CatalogCurrent'
  BY <1>3 DEF Poll, windowsVars, globalVars, tableVars, localVars
<1>4. ASSUME NEW u \in Users, NEW k \in Requests, TakeLock(u, k) PROVE CatalogCurrent'
  BY <1>4, UsersAssumption
  DEF TakeLock, AfterLock, windowsVars, globalVars, tableVars, localVars
<1>5. ASSUME NEW u \in Users, NEW k \in Requests, NotificationFails(u, k)
      PROVE CatalogCurrent'
  BY <1>5 DEF NotificationFails, windowsVars, globalVars, tableVars, localVars
<1>6. ASSUME NEW p \in Providers, CatalogChange(p) PROVE CatalogCurrent'
  <2>1. framework' = framework /\ pc' = pc
    BY <1>6 DEF CatalogChange, globalVars
  <2>2. framework = "live" => Pending("provider")'
    BY <1>6, <2>1 DEF CatalogChange, Notify
  <2> QED
    BY <2>1, <2>2
<1>7. ASSUME NEW p \in Providers, NEW a \in Addresses, AddressChange(p, a)
      PROVE CatalogCurrent'
  BY <1>7 DEF AddressChange, Notify, portVars, globalVars, tableVars, localVars
<1>8. CASE Working
  <2>1. /\ Pending("provider")' = Pending("provider")
        /\ UNCHANGED <<catalog, framework>>
    BY <1>8, WorkingOnly DEF Moves, windowsVars, portVars, globalVars
  <2> HIDE DEF Pending
  <2>2. ASSUME NEW u \in Users, EnumSize(u) PROVE CatalogCurrent'
    BY <2>1, <2>2 DEF EnumSize, tableVars
  <2>3. ASSUME NEW u \in Users, EnumFails(u) PROVE CatalogCurrent'
    BY <2>1, <2>3 DEF EnumFails
  <2>4. ASSUME NEW u \in Users, EnumTooSmall(u) PROVE CatalogCurrent'
    <3>1. Cardinality(catalog) \in Nat
      BY FiniteAssumption, FS_Subset, FS_CardinalityType
    <3>2. Pending("provider")
      BY <2>4, <3>1 DEF EnumTooSmall
    <3> QED
      BY <2>1, <2>4, <3>2 DEF EnumTooSmall
  <2>5. ASSUME NEW u \in Users, Enum(u) PROVE CatalogCurrent'
    BY <2>1, <2>5 DEF Enum
  <2>6. ASSUME NEW u \in Users, Rebuild(u) PROVE CatalogCurrent'
    BY <2>1, <2>6 DEF Rebuild
  <2>7. ASSUME NEW u \in Users, NEW p \in Providers,
               \/ Build(u, p) \/ Outgrown(u, p) \/ NoMemory(u, p) \/ QueryFails(u, p)
               \/ Overflow(u, p)
        PROVE CatalogCurrent'
    <3>1. /\ pc[u] \in {"ask", "again"}
          /\ Moves(u, {"ask", "again"}, {"ask", "again"})
          /\ "provider" \in missed' <=> "provider" \in missed
          /\ UNCHANGED <<active, size>>
      BY <2>7 DEF Build, Outgrown, NoMemory, QueryFails, Overflow, IsAsked, Answered,
         tableVars, Moves
    <3> QED
      BY <2>1, <3>1 DEF Moves
  <2>8. ASSUME NEW u \in Users, Flush(u) PROVE CatalogCurrent'
    BY <2>1, <2>8 DEF Flush
  <2>9. ASSUME NEW u \in Users, Call(u) \/ PollEmpty(u) \/ AllAsked(u) \/ LookUp(u)
        PROVE CatalogCurrent'
    BY <2>1, <2>9 DEF Call, PollEmpty, AllAsked, LookUp, tableVars, localVars
  <2>10. ASSUME NEW u \in Users, NEW a \in Addresses, NEW v \in {1, 2},
                OpenAdapter(u, a, v)
         PROVE CatalogCurrent'
    BY <2>1, <2>10 DEF OpenAdapter, tableVars, localVars
  <2>11. CASE UNCHANGED <<active, missed, size, pc>>
    BY <2>1, <2>11
  <2> HIDE DEF IInv, Types, Life, Locked, Watched, CatalogCurrent, States,
               UserStates, CallStates, LockStates, Requests, Goto
  <2> QED
    BY <1>8, <2>2, <2>3, <2>4, <2>5, <2>6, <2>7, <2>8, <2>9, <2>10, <2>11
    DEF Working, CloseAdapter, FlushProvidersForUser, tableVars, localVars
<1>9. CASE Outside
  BY <1>9 DEF Outside, Moves, windowsVars, portVars, tableVars, localVars
<1>10. CASE UNCHANGED vars
  BY <1>10 DEF vars, windowsVars, portVars, globalVars, tableVars, localVars
<1> QED
  BY Steps, OutsideSteps, <1>1, <1>2, <1>3, <1>4, <1>5, <1>6, <1>7, <1>8, <1>9, <1>10
  DEF Within, Notifying

\* What an answer takes is a length.
LEMMA NeedIsLength ==
  ASSUME Types, NEW p \in Providers
  PROVE Need(p) \in Nat \ {0}
<1>1. IsFiniteSet(bound[p])
  BY FiniteAssumption, FS_Subset DEF Types
<1> QED
  BY <1>1, FS_CardinalityType DEF Need

\* The IPv4 addresses are those of the active providers asked so far, unless one
\* was left out; a change of one of them is told of.
LEMMA AddressesStep == IInv /\ [Next]_vars => AddressesCurrent'
<1> SUFFICES ASSUME IInv, [Next]_vars PROVE AddressesCurrent'
  OBVIOUS
<1> USE DEF IInv, Types, Life, Locked, Watched, AddressesCurrent, Pending, States,
            UserStates, CallStates, LockStates, Requests, Goto
<1>1. ASSUME NEW u \in Users, Create(u) PROVE AddressesCurrent'
  <2>1. /\ active' = {} /\ Listed4' = {} /\ Serving({})' = {}
        /\ \A v \in Users : pc'[v] \notin {"ask", "again"}
    BY <1>1 DEF Create, tableVars, Serving, Listed4
  <2> QED
    BY <2>1
<1>2. ASSUME NEW u \in Users, Release(u) PROVE AddressesCurrent'
  <2>1. CASE nRef' = 0
    BY <1>2, <2>1, ReleaseLast DEF Release
  <2>2. CASE nRef' # 0
    BY <1>2, <2>2
    DEF Release, Serving, Listed4, windowsVars, portVars, tableVars, localVars
  <2> QED
    BY <2>1, <2>2
<1>3. ASSUME NEW u \in Users, NEW k \in Requests, Poll(u, k) PROVE AddressesCurrent'
  BY <1>3 DEF Poll, Serving, Listed4, windowsVars, globalVars, tableVars, localVars
<1>4. ASSUME NEW u \in Users, NEW k \in Requests, TakeLock(u, k)
      PROVE AddressesCurrent'
  BY <1>4, UsersAssumption
  DEF TakeLock, AfterLock, Serving, Listed4, windowsVars, globalVars, tableVars,
      localVars
<1>5. ASSUME NEW u \in Users, NEW k \in Requests, NotificationFails(u, k)
      PROVE AddressesCurrent'
  BY <1>5
  DEF NotificationFails, Serving, Listed4, windowsVars, globalVars, tableVars,
      localVars
<1>6. ASSUME NEW p \in Providers, CatalogChange(p) PROVE AddressesCurrent'
  BY <1>6
  DEF CatalogChange, Notify, Serving, Listed4, globalVars, tableVars, localVars
<1>7. ASSUME NEW p \in Providers, NEW a \in Addresses, AddressChange(p, a)
      PROVE AddressesCurrent'
  <2>1. /\ UNCHANGED <<framework, pc, active, missed, todo, Listed4>>
    BY <1>7 DEF AddressChange, globalVars, tableVars, localVars, Listed4
  <2>2. CASE a \in IPv4
    <3>1. framework = "live" => Pending("address")'
      BY <1>7, <2>1, <2>2 DEF AddressChange, Notify
    <3> QED
      BY <2>1, <3>1
  <2>3. CASE a \notin IPv4
    <3>1. \A ps : Serving(ps)' = Serving(ps)
      BY <1>7, <2>3 DEF AddressChange, Serving
    <3>2. Pending("address")' = Pending("address")
      BY <1>7, <2>1, <2>3 DEF AddressChange, portVars
    <3> QED
      BY <2>1, <3>1, <3>2
  <2> QED
    BY <2>2, <2>3
<1>8. CASE Working
  <2>1. /\ Pending("address")' = Pending("address")
        /\ UNCHANGED <<bound, framework>>
    BY <1>8, WorkingOnly DEF Moves, windowsVars, portVars, globalVars
  <2> HIDE DEF Pending
  <2>2. ASSUME NEW u \in Users, EnumSize(u) \/ EnumTooSmall(u) \/ EnumFails(u)
        PROVE AddressesCurrent'
    BY <2>1, <2>2 DEF EnumSize, EnumTooSmall, EnumFails, Serving, Listed4, tableVars
  <2>3. ASSUME NEW u \in Users, Enum(u) PROVE AddressesCurrent'
    BY <2>1, <2>3 DEF Enum
  <2>4. ASSUME NEW u \in Users, Rebuild(u) PROVE AddressesCurrent'
    <3>1. Listed4' = Serving(active \ todo)'
      BY <2>4 DEF Rebuild, Serving, Listed4
    <3>2. pc'[u] = "ask" /\ \A v \in Users : pc'[v] # "again"
      BY <2>4 DEF Rebuild
    <3> QED
      BY <3>1, <3>2
  <2>5. ASSUME NEW u \in Users, NEW p \in Providers, Build(u, p)
        PROVE AddressesCurrent'
    <3>1. /\ pc[u] \in {"ask", "again"} /\ p \in active
          /\ addressList' = addressList \cup (bound[p] \X {p})
          /\ todo' = todo \ {p} /\ UNCHANGED <<active, missed>>
      BY <2>5 DEF Build, IsAsked, Answered, Listed
    <3>2. Listed4' = Listed4 \cup ((bound[p] \cap IPv4) \X {p})
      BY <3>1 DEF Listed4
    <3>3. Serving(active \ todo)'
            = Serving(active \ todo) \cup ((bound[p] \cap IPv4) \X {p})
      BY <2>1, <3>1, FamilyAssumption DEF Serving
    <3>4. pc'[u] = "ask" /\ \A v \in Users : pc'[v] \notin {"again", "rebuild"}
      BY <2>5, <3>1 DEF Build, Answered
    <3> QED
      BY <2>1, <3>1, <3>2, <3>3, <3>4
  <2>6. ASSUME NEW u \in Users, NEW p \in Providers, Overflow(u, p)
        PROVE AddressesCurrent'
    <3>1. /\ pc[u] = "ask" /\ pc' = [pc EXCEPT ![u] = "again"]
          /\ UNCHANGED <<active, addressList, missed, todo>>
      BY <2>6 DEF Overflow, tableVars
    <3> QED
      BY <2>1, <3>1 DEF Serving, Listed4
  <2>7. ASSUME NEW u \in Users, NEW p \in Providers,
               NoMemory(u, p) \/ Outgrown(u, p) \/ QueryFails(u, p)
        PROVE AddressesCurrent'
    BY <2>7 DEF NoMemory, Outgrown, QueryFails, Answered
  <2>8. ASSUME NEW u \in Users, AllAsked(u) PROVE AddressesCurrent'
    <3>1. /\ pc[u] = "ask" /\ pc' = [pc EXCEPT ![u] = "flush"]
          /\ active \ todo = active /\ UNCHANGED <<active, addressList, missed>>
      BY <2>8 DEF AllAsked, tableVars
    <3> QED
      BY <2>1, <3>1 DEF Serving, Listed4
  <2>9. ASSUME NEW u \in Users, Flush(u) PROVE AddressesCurrent'
    BY <2>1, <2>9 DEF Flush, Serving, Listed4
  <2>10. ASSUME NEW u \in Users, Call(u) \/ PollEmpty(u) \/ LookUp(u)
         PROVE AddressesCurrent'
    BY <2>1, <2>10
    DEF Call, PollEmpty, LookUp, Serving, Listed4, tableVars, localVars
  <2>11. ASSUME NEW u \in Users, NEW a \in Addresses, NEW v \in {1, 2},
                OpenAdapter(u, a, v)
         PROVE AddressesCurrent'
    BY <2>1, <2>11 DEF OpenAdapter, Serving, Listed4, tableVars, localVars
  <2>12. CASE UNCHANGED <<active, addressList, missed, localVars, pc>>
    BY <2>1, <2>12 DEF Serving, Listed4, localVars
  <2> HIDE DEF IInv, Types, Life, Locked, Watched, AddressesCurrent, States,
               UserStates, CallStates, LockStates, Requests, Goto
  <2> QED
    BY <1>8, <2>2, <2>3, <2>4, <2>5, <2>6, <2>7, <2>8, <2>9, <2>10, <2>11,
       <2>12
    DEF Working, CloseAdapter, FlushProvidersForUser, tableVars
<1>9. CASE Outside
  BY <1>9
  DEF Outside, Moves, Serving, Listed4, windowsVars, portVars, tableVars, localVars
<1>10. CASE UNCHANGED vars
  BY <1>10
  DEF vars, Serving, Listed4, windowsVars, portVars, globalVars, tableVars,
      localVars
<1> QED
  BY Steps, OutsideSteps, <1>1, <1>2, <1>3, <1>4, <1>5, <1>6, <1>7, <1>8, <1>9, <1>10
  DEF Within, Notifying

\* The length shrinks while the buffer stays, and grows only with the buffer or when
\* an answer has outgrown it.
LEMMA LengthStep == IInv /\ [Next]_vars => LengthIsOfBuffer'
<1> SUFFICES ASSUME IInv, [Next]_vars PROVE LengthIsOfBuffer'
  OBVIOUS
<1> USE DEF IInv, Types, LengthIsOfBuffer
<1>1. ASSUME NEW u \in Users, NEW p \in Providers, Build(u, p) PROVE LengthIsOfBuffer'
  BY <1>1, NeedIsLength DEF Build, Fits
<1>2. ASSUME NEW u \in Users, NEW p \in Providers,
             Overflow(u, p) \/ NoMemory(u, p) \/ Outgrown(u, p)
      PROVE LengthIsOfBuffer'
  BY <1>2, NeedIsLength DEF Overflow, NoMemory, Outgrown
<1>3. ASSUME NEW u \in Users, Rebuild(u) \/ AllAsked(u) PROVE LengthIsOfBuffer'
  BY <1>3 DEF Rebuild, AllAsked
<1>4. CASE UNCHANGED <<len, room, grown>>
  BY <1>4
<1> HIDE DEF IInv, Types, LengthIsOfBuffer
<1>5. ASSUME NEW u \in Users, Create(u) \/ Release(u) PROVE LengthIsOfBuffer'
  BY <1>4, <1>5 DEF Create, Release, localVars
<1>6. CASE Outside
  BY <1>4, <1>6 DEF Outside, localVars
<1>7. CASE Notifying
  BY <1>4, <1>7
  DEF Notifying, Poll, TakeLock, NotificationFails, CatalogChange, AddressChange,
      localVars
<1>8. CASE Working
  BY <1>1, <1>2, <1>3, <1>4, <1>8
  DEF Working, Call, PollEmpty, EnumSize, EnumFails, EnumTooSmall, Enum, QueryFails,
      CloseAdapter, Flush, LookUp, FlushProvidersForUser, OpenAdapter, localVars
<1>9. CASE UNCHANGED vars
  BY <1>4, <1>9 DEF vars, localVars
<1> QED
  BY Steps, OutsideSteps, <1>5, <1>6, <1>7, <1>8, <1>9 DEF Within

\* Every variable keeps its type.
LEMMA TypesStep == IInv /\ [Next]_vars => Types'
<1> SUFFICES ASSUME IInv, [Next]_vars PROVE Types'
  OBVIOUS
<1>0. nRef' \in Nat
  BY CountStep, FiniteAssumption, FS_Subset, FS_CardinalityType DEF Count, Bracketed
<1> USE DEF IInv, Types, Spin, SpinStates, States, UserStates, CallStates, LockStates,
            Requests, Goto
<1>1. ASSUME NEW u \in Users, CallStartup(u) \/ CallCleanup(u) PROVE Types'
  BY <1>1
  DEF CallStartup, CallCleanup, windowsVars, portVars, globalVars, tableVars, localVars
<1>2. ASSUME NEW u \in Users,
             Acquire(u, "startup", "starting") \/ Acquire(u, "cleanup", "releasing")
      PROVE Types'
  BY <1>2 DEF Acquire, windowsVars, portVars, tableVars, localVars
<1>3. ASSUME NEW u \in Users, Create(u) PROVE Types'
  BY <1>3 DEF Create, windowsVars, tableVars, localVars
<1>4. ASSUME NEW u \in Users, StartupFails(u) PROVE Types'
  BY <1>4 DEF StartupFails, windowsVars, portVars, tableVars, localVars
<1>5. ASSUME NEW u \in Users, AddRef(u) PROVE Types'
  BY <1>0, <1>5 DEF AddRef, windowsVars, portVars, tableVars, localVars
<1>6. ASSUME NEW u \in Users, Release(u) PROVE Types'
  <2>1. /\ gInitializing = 1 /\ gInitializing' \in {0, 1}
        /\ UNCHANGED <<windowsVars, heap, adapters, localVars>>
    BY <1>6 DEF Release
  <2>2. CASE nRef' = 0
    <3>1. pc' \in [Users -> States] /\ framework' = "freed" /\ Destroyed
      BY <1>6, <2>2 DEF Release
    <3> QED
      BY <1>0, <2>1, <3>1 DEF Destroyed, windowsVars, localVars
  <2>3. CASE nRef' # 0
    <3>1. /\ pc' \in [Users -> States]
          /\ UNCHANGED <<framework, portVars, tableVars, loaded>>
      BY <1>6, <2>3 DEF Release
    <3> QED
      BY <1>0, <2>1, <3>1 DEF windowsVars, portVars, tableVars, localVars
  <2> QED
    BY <2>2, <2>3
<1>7. ASSUME NEW u \in Users, Destroy(u) PROVE Types'
  <2>1. /\ gInitializing = 1 /\ gInitializing' = 0 /\ pc' \in [Users -> States]
        /\ framework' = "null" /\ heap' = FALSE
    BY <1>7 DEF Destroy
  <2> QED
    BY <1>7, <2>1 DEF Destroy, windowsVars, portVars, tableVars, localVars
<1>8. CASE Notifying
  <2>1. ASSUME NEW u \in Users, NEW k \in Requests,
               Poll(u, k) \/ TakeLock(u, k) \/ NotificationFails(u, k)
        PROVE Types'
    BY <2>1
    DEF Poll, TakeLock, AfterLock, NotificationFails, windowsVars, globalVars,
        tableVars, localVars
  <2>2. ASSUME NEW p \in Providers, CatalogChange(p) PROVE Types'
    BY <2>2 DEF CatalogChange, Notify, globalVars, tableVars, localVars
  <2>3. ASSUME NEW p \in Providers, NEW a \in Addresses, AddressChange(p, a)
        PROVE Types'
    BY <2>3 DEF AddressChange, Notify, portVars, globalVars, tableVars, localVars
  <2> QED
    BY <1>8, <2>1, <2>2, <2>3 DEF Notifying
<1>9. CASE Working
  <2>1. /\ UNCHANGED <<windowsVars, portVars, globalVars>>
        /\ pc' \in [Users -> States]
    BY <1>9, WorkingOnly DEF Moves
  <2> USE <2>1 DEF windowsVars, portVars, globalVars
  <2>2. ASSUME NEW u \in Users,
               \/ Call(u) \/ PollEmpty(u) \/ EnumSize(u) \/ EnumTooSmall(u)
               \/ AllAsked(u)
        PROVE Types'
    <3>1. /\ UNCHANGED <<tableVars, loaded, adapters, todo>>
          /\ len' \in Nat /\ room' \in Nat /\ grown' \in BOOLEAN
      <4>1. CASE Call(u) \/ PollEmpty(u)
        BY <4>1 DEF Call, PollEmpty, localVars
      <4>2. CASE EnumSize(u) \/ EnumTooSmall(u)
        BY <4>2 DEF EnumSize, EnumTooSmall, localVars
      <4>3. CASE AllAsked(u)
        BY <4>3 DEF AllAsked
      <4> QED
        BY <2>2, <4>1, <4>2, <4>3
    <3> QED
      BY <3>1 DEF tableVars
  <2>3. ASSUME NEW u \in Users, EnumFails(u) \/ Enum(u) \/ Rebuild(u) PROVE Types'
    <3>1. /\ UNCHANGED <<loaded, adapters>> /\ todo' \subseteq Providers
          /\ len' \in Nat /\ room' \in Nat /\ grown' \in BOOLEAN
      <4>1. CASE EnumFails(u) \/ Enum(u)
        BY <4>1 DEF EnumFails, Enum, localVars
      <4>2. CASE Rebuild(u)
        BY <4>2 DEF Rebuild
      <4> QED
        BY <2>3, <4>1, <4>2
    <3>2. /\ providerList' \subseteq Providers /\ active' \subseteq Providers
          /\ addressList' \subseteq Addresses \X Providers /\ missed' \subseteq Requests
      BY <2>3 DEF EnumFails, Enum, Rebuild
    <3> QED
      BY <3>1, <3>2
  <2>4. ASSUME NEW u \in Users, NEW p \in Providers, Overflow(u, p) PROVE Types'
    BY <2>4, NeedIsLength DEF Overflow, Unloaded, tableVars
  <2>5. ASSUME NEW u \in Users, NEW p \in Providers,
               Build(u, p) \/ NoMemory(u, p) \/ Outgrown(u, p) \/ QueryFails(u, p)
        PROVE Types'
    <3>1. /\ todo' = todo \ {p} /\ loaded' = Unloaded({p})
          /\ UNCHANGED <<providerList, active, adapters>>
      BY <2>5 DEF Build, NoMemory, Outgrown, QueryFails, Answered
    <3>2. addressList' \subseteq Addresses \X Providers
      BY <2>5 DEF Build, NoMemory, Outgrown, QueryFails, Answered
    <3>3. /\ len' \in Nat /\ room' \in Nat
          /\ grown' \in BOOLEAN /\ missed' \subseteq Requests
      <4>1. CASE Build(u, p)
        BY <4>1, NeedIsLength DEF Build
      <4>2. CASE NoMemory(u, p)
        BY <4>2, NeedIsLength DEF NoMemory
      <4>3. CASE Outgrown(u, p)
        BY <4>3, NeedIsLength DEF Outgrown
      <4>4. CASE QueryFails(u, p)
        BY <4>4 DEF QueryFails
      <4> QED
        BY <2>5, <4>1, <4>2, <4>3, <4>4
    <3> QED
      BY <3>1, <3>2, <3>3 DEF Unloaded
  <2>6. ASSUME NEW u \in Users, Flush(u) \/ FlushProvidersForUser(u) PROVE Types'
    BY <2>6 DEF Flush, FlushProvidersForUser, Flushed, Unloaded, localVars
  <2>7. ASSUME NEW u \in Users, LookUp(u) PROVE Types'
    BY <2>7 DEF LookUp, Unloaded, tableVars, localVars
  <2>8. ASSUME NEW u \in Users, NEW a \in Addresses, NEW v \in {1, 2},
               OpenAdapter(u, a, v)
        PROVE Types'
    BY <2>8 DEF OpenAdapter, Candidates, Opened, Unloaded, tableVars, localVars
  <2>9. ASSUME NEW u \in Users, NEW p \in Providers, CloseAdapter(u, p) PROVE Types'
    BY <2>9 DEF CloseAdapter, tableVars, localVars
  <2> HIDE <2>1 DEF IInv, Types, Spin, SpinStates, States, UserStates, CallStates,
               LockStates, Requests, Goto
  <2> QED
    BY <1>9, <2>2, <2>3, <2>4, <2>5, <2>6, <2>7, <2>8, <2>9 DEF Working
<1>10. CASE UNCHANGED vars
  BY <1>10 DEF vars, windowsVars, portVars, globalVars, tableVars, localVars
<1> HIDE DEF IInv, Types, Spin, SpinStates, States, UserStates, CallStates, LockStates,
             Requests, Goto
<1> QED
  BY Steps, <1>1, <1>2, <1>3, <1>4, <1>5, <1>6, <1>7, <1>8, <1>9, <1>10 DEF Within

\* At first nobody uses the framework, which does not exist.
LEMMA InitInv == Init => IInv
<1> SUFFICES ASSUME Init PROVE IInv
  OBVIOUS
<1> USE DEF Init
<1>1. Types
  BY DEF Types, States
<1>2. \A u \in Users : pc[u] = "out"
  OBVIOUS
<1>3. Count
  <2>1. Bracketed = {}
    BY <1>2 DEF Bracketed
  <2> QED
    BY <2>1, FS_EmptySet DEF Count
<1>4. Spin /\ Life /\ Locked /\ Listed /\ Backed
  BY <1>2, UsersAssumption
  DEF Spin, SpinStates, Life, UserStates, CallStates, LockStates, Locked, Listed, Backed
<1>5. Watched /\ CatalogCurrent /\ AddressesCurrent /\ LengthIsOfBuffer
  BY <1>2 DEF Watched, CatalogCurrent, AddressesCurrent, LengthIsOfBuffer
<1> QED
  BY <1>1, <1>3, <1>4, <1>5 DEF IInv

\* The inductive invariant of the framework holds throughout.
THEOREM FrameworkInvariance == Spec => []IInv
<1>1. IInv /\ [Next]_vars => IInv'
  BY TypesStep, SpinStep, CountStep, LifeStep, LockedStep, ListedStep, BackedStep,
     WatchedStep, CatalogStep, AddressesStep, LengthStep DEF IInv
<1> QED
  BY <1>1, InitInv, PTL DEF Spec

\* The framework's variables have their types, and its lock belongs to the user
\* that rebuilds, in every reachable state.
THEOREM FrameworkTypeCorrect == Spec => []TypeOK
<1>1. IInv => TypeOK
  <2> SUFFICES ASSUME IInv PROVE TypeOK
    OBVIOUS
  <2>1. nRef \in 0..Cardinality(Users)
    BY FiniteAssumption, FS_Subset, FS_CardinalityType DEF IInv, Count, Bracketed
  <2>2. Holders = {lock} \ {Nobody}
    BY UsersAssumption DEF IInv, Locked, LockStates, Holders
  <2> QED
    BY <2>1, <2>2 DEF IInv, Types, TypeOK
<1> QED
  BY <1>1, FrameworkInvariance, PTL

\* Whoever is between its NdStartup and its NdCleanup has the framework, and the
\* spin lock is closed by exactly the one user inside.
THEOREM UsersSafe == Spec => []UserSafe
<1>1. IInv => UserSafe
  <2> SUFFICES ASSUME IInv PROVE UserSafe
    OBVIOUS
  <2>1. gInitializing = Cardinality(InSpinLock)
    <3>1. CASE gInitializing = 0
      <4>1. InSpinLock = {}
        BY <3>1 DEF IInv, Spin, SpinStates, InSpinLock
      <4> QED
        BY <3>1, <4>1, FS_EmptySet
    <3>2. CASE gInitializing = 1
      <4>1. PICK u \in Users : pc[u] \in SpinStates
        BY <3>2 DEF IInv, Spin
      <4>2. InSpinLock = {u}
        BY <4>1 DEF IInv, Spin, SpinStates, InSpinLock
      <4> QED
        BY <3>2, <4>2, FS_Singleton
    <3> QED
      BY <3>1, <3>2 DEF IInv, Types
  <2>2. Bracketed # {} => framework = "live" /\ heap
    BY DEF IInv, Types, Life, Bracketed, States
  <2>3. nRef = Cardinality(Bracketed)
    BY DEF IInv, Count
  <2>4. gInitializing = 0 => framework # "freed" /\ (heap <=> framework = "live")
    BY DEF IInv, Types, Spin, SpinStates, Life
  <2> QED
    BY <2>1, <2>2, <2>3, <2>4 DEF UserSafe
<1> QED
  BY <1>1, FrameworkInvariance, PTL

\* Every address in the table is of a provider that has not been deleted.
THEOREM AddressesHaveProviders == Spec => []AddressesServed
<1>1. IInv => AddressesServed
  BY DEF IInv, Listed, AddressesServed
<1> QED
  BY <1>1, FrameworkInvariance, PTL

\* An open adapter's provider stays listed and its DLL loaded.
THEOREM AdaptersKeepProviders == Spec => []AdapterBacked
<1>1. IInv => AdapterBacked
  BY DEF IInv, Backed, AdapterBacked
<1> QED
  BY <1>1, FrameworkInvariance, PTL

\* Once every notification is handled, and if nothing has failed, the providers and
\* their IPv4 addresses are what Windows says.
THEOREM NoChangeMissed == Spec => []TablesCurrent
<1>1. IInv => TablesCurrent
  <2> SUFFICES ASSUME IInv, Settled
               PROVE active = catalog /\ Listed4 = Served(IPv4)
    BY DEF TablesCurrent, Listed4
  <2>1. ~Pending("provider") /\ ~Pending("address")
    BY DEF Settled, Pending, Requests
  <2>2. \A u \in Users : pc[u] \notin LockStates
    BY UsersAssumption DEF Settled, IInv, Locked
  <2>3. active = catalog
    BY <2>1, <2>2 DEF Settled, IInv, CatalogCurrent, LockStates
  <2>4. Listed4 = Serving(active)
    BY <2>1, <2>2 DEF Settled, IInv, AddressesCurrent, LockStates
  <2> QED
    BY <2>3, <2>4 DEF Serving, Served
<1> QED
  BY <1>1, FrameworkInvariance, PTL

\* The length passed to a provider is that of the buffer, or less, until an answer
\* has outgrown the buffer.
THEOREM LengthFits == Spec => []LengthIsOfBuffer
<1>1. IInv => LengthIsOfBuffer
  BY DEF IInv
<1> QED
  BY <1>1, FrameworkInvariance, PTL

===============================================================================
