----------------------------- MODULE NdFramework -----------------------------
(***************************************************************************)
(* The NetworkDirect framework (ndfrmwrk.cpp, ndprov.cpp), through which the *)
(* sessions find the provider of an address and open its adapter.  It keeps  *)
(* a list of providers and one of their addresses, which every call brings   *)
(* up to date from a completion port (ProcessUpdates) before it takes the    *)
(* lock and looks at them.  NdStartup and NdCleanup count the users of the   *)
(* one instance under a spin lock.                                           *)
(*                                                                           *)
(* Users call only between their NdStartup and NdCleanup, and close their    *)
(* adapters before, as main and the sessions do.  The catalogue, the         *)
(* addresses of the adapters and the notifications are Windows'.             *)
(***************************************************************************)
EXTENDS Naturals, FiniteSets

CONSTANTS Users,      \* threads that use the framework
          Providers,  \* what the protocol catalogue can list
          Addresses,
          IPv4,       \* the ones of the notification socket's family
          Version,    \* ND_VERSION_1 or ND_VERSION_2, for each provider
          MaxChanges, \* bound on what changes in Windows
          Nobody

ASSUME UsersAssumption == Nobody \notin Users
ASSUME FiniteAssumption ==
  IsFiniteSet(Users) /\ IsFiniteSet(Providers) /\ IsFiniteSet(Addresses)
ASSUME FamilyAssumption == IPv4 \subseteq Addresses
ASSUME VersionAssumption == Version \in [Providers -> {1, 2}]

VARIABLES
  catalog,        \* Windows: the providers in the protocol catalogue
  bound,          \* Windows: the addresses each provider's adapters have
  changes,        \* Windows: how often one of them has changed
  armed,          \* notifications requested, in m_Ov
  iocp,           \* notifications completed, in m_hIocp
  gInitializing,  \* the spin lock, 0 or 1
  framework,      \* gpFramework: "null", "live", or "freed", a dangling pointer
  heap,           \* ghHeap exists
  nRef,           \* m_nRef
  lock,           \* owner of m_lock
  providerList,   \* m_ProviderList
  active,         \* of those, the ones marked active
  loaded,         \* the ones whose DLL is loaded
  addressList,    \* m_NdAddrList and m_NdV1AddrList, as <<address, provider>>
  adapters,       \* open adapters, as <<user, provider>>
  pc,             \* where each user stands
  size,           \* ProcessProviderChange: providers that fit into the buffer
  todo,           \* ProcessAddressChange: providers not yet asked,
  asked,          \* the one asked a second time,
  len, room,      \* the length passed, and that of the buffer (0: none)
  lost,           \* history: requests that failed and are not made again
  missed,         \* history: tables whose last rebuild failed
  grown           \* history: a provider's answer has outgrown its buffer

windowsVars == <<catalog, bound, changes>>
portVars == <<armed, iocp, lost>>
globalVars == <<gInitializing, framework, heap, nRef>>
tableVars == <<providerList, active, addressList, missed>>
localVars == <<size, todo, asked, len, room, grown>>
vars == <<windowsVars, portVars, globalVars, lock, tableVars, loaded, adapters,
          pc, localVars>>

Requests == {"provider", "address"}

Init ==
  /\ catalog \in SUBSET Providers
  /\ bound \in [Providers -> SUBSET Addresses]
  /\ changes = 0
  /\ armed = {} /\ iocp = {} /\ lost = {}
  /\ gInitializing = 0 /\ framework = "null" /\ heap = FALSE /\ nRef = 0
  /\ lock = Nobody
  /\ providerList = {} /\ active = {} /\ addressList = {} /\ missed = {}
  /\ loaded = {} /\ adapters = {}
  /\ pc = [u \in Users |-> "out"]
  /\ size = 0 /\ todo = {} /\ asked = Nobody /\ len = 0 /\ room = 0 /\ grown = FALSE

Goto(u, from, to) == pc[u] = from /\ pc' = [pc EXCEPT ![u] = to]

\* DllCanUnloadNow: no object of the provider is left
Idle(p) == \A u \in Users : <<u, p>> \notin adapters

\* TryUnload, for each of the providers
Unloaded(ps) == loaded \ {p \in ps : Idle(p)}

---------------------------------------------------------------------------
(* NdStartup and NdCleanup                                                 *)

\* The destructor, then the heap and the pointer
Destroyed ==
  /\ providerList' = {} /\ active' = {} /\ addressList' = {} /\ loaded' = {}
  /\ armed' = {} /\ iocp' = {} /\ lost' = {} /\ missed' = {}

CallStartup(u) ==
  /\ Goto(u, "out", "startup")
  /\ UNCHANGED <<windowsVars, portVars, globalVars, lock, tableVars, loaded,
                 adapters, localVars>>

\* A mutant: the pointer is tested before the spin lock is taken
CheckedOutsideLock(u, from, to) ==
  /\ gInitializing = 0 \/ framework = "null"
  /\ gInitializing' = 1
  /\ Goto(u, from, to)
  /\ UNCHANGED <<windowsVars, portVars, framework, heap, nRef, lock, tableVars,
                 loaded, adapters, localVars>>

\* InterlockedCompareExchange until it answers 0
Acquire(u, from, to) ==
  /\ gInitializing = 0 /\ gInitializing' = 1
  /\ Goto(u, from, to)
  /\ UNCHANGED <<windowsVars, portVars, framework, heap, nRef, lock, tableVars,
                 loaded, adapters, localVars>>

\* The first user creates the heap and the framework; Init requests the address
\* notification and posts a provider notification itself
Create(u) ==
  /\ framework = "null"
  /\ Goto(u, "starting", "addref")
  /\ heap' = TRUE /\ framework' = "live"
  /\ armed' = {"address"} /\ iocp' = {"provider"}
  /\ UNCHANGED <<windowsVars, lost, gInitializing, nRef, lock, tableVars,
                 loaded, adapters, localVars>>

\* HeapCreate, new or Init fails: everything is taken back
StartupFails(u) ==
  /\ framework = "null"
  /\ Goto(u, "starting", "out")
  /\ gInitializing' = gInitializing - 1
  /\ UNCHANGED <<windowsVars, portVars, framework, heap, nRef, lock, tableVars,
                 loaded, adapters, localVars>>

AddRef(u) ==
  /\ framework # "null"
  /\ pc[u] \in {"starting", "addref"} /\ pc' = [pc EXCEPT ![u] = "in"]
  /\ nRef' = nRef + 1
  /\ gInitializing' = gInitializing - 1
  /\ UNCHANGED <<windowsVars, portVars, framework, heap, lock, tableVars,
                 loaded, adapters, localVars>>

CallCleanup(u) ==
  /\ Goto(u, "in", "cleanup")
  /\ \A p \in Providers : <<u, p>> \notin adapters
  /\ UNCHANGED <<windowsVars, portVars, globalVars, lock, tableVars, loaded,
                 adapters, localVars>>

\* Release: the last user deletes the framework
Release(u) ==
  /\ pc[u] = "releasing"
  /\ nRef' = nRef - 1
  /\ IF nRef' = 0
     THEN /\ Goto(u, "releasing", "destroying")
          /\ framework' = "freed" /\ Destroyed
          /\ UNCHANGED gInitializing
     ELSE /\ Goto(u, "releasing", "out")
          /\ gInitializing' = gInitializing - 1
          /\ UNCHANGED <<framework, portVars, tableVars, loaded>>
  /\ UNCHANGED <<windowsVars, heap, lock, adapters, localVars>>

Destroy(u) ==
  /\ Goto(u, "destroying", "out")
  /\ framework' = "null" /\ heap' = FALSE
  /\ gInitializing' = gInitializing - 1
  /\ UNCHANGED <<windowsVars, portVars, nRef, lock, tableVars, loaded, adapters,
                 localVars>>

---------------------------------------------------------------------------
(* ProcessUpdates                                                          *)

Call(u) ==
  /\ Goto(u, "in", "poll")
  /\ UNCHANGED <<windowsVars, portVars, globalVars, lock, tableVars, loaded,
                 adapters, localVars>>

\* GetQueuedCompletionStatus, before the lock is taken
Poll(u, k) ==
  /\ k \in iocp /\ iocp' = iocp \ {k}
  /\ Goto(u, "poll", k)
  /\ UNCHANGED <<windowsVars, armed, lost, globalVars, lock, tableVars, loaded,
                 adapters, localVars>>

\* WAIT_TIMEOUT
PollEmpty(u) ==
  /\ iocp = {}
  /\ Goto(u, "poll", "look")
  /\ UNCHANGED <<windowsVars, portVars, globalVars, lock, tableVars, loaded,
                 adapters, localVars>>

AfterLock(k) == IF k = "provider" THEN "size" ELSE "rebuild"

\* A mutant: the notification is not requested again
NotRearmed(u, k) ==
  /\ lock = Nobody /\ lock' = u
  /\ Goto(u, k, AfterLock(k))
  /\ UNCHANGED <<windowsVars, portVars, globalVars, tableVars, loaded,
                 adapters, localVars>>

\* The next notification is requested before the tables are read.  A release
\* build goes on when the request fails
TakeLock(u, k) ==
  /\ lock = Nobody /\ lock' = u
  /\ Goto(u, k, AfterLock(k))
  /\ \/ armed' = armed \cup {k} /\ UNCHANGED lost
     \/ lost' = lost \cup {k} /\ UNCHANGED armed
  /\ UNCHANGED <<windowsVars, iocp, globalVars, tableVars, loaded, adapters,
                 localVars>>

\* ProcessProviderChange: the length of the catalogue, and a buffer for it
EnumSize(u) ==
  /\ Goto(u, "size", "enum")
  /\ size' = Cardinality(catalog)
  /\ UNCHANGED <<windowsVars, portVars, globalVars, lock, tableVars, loaded,
                 adapters, todo, asked, len, room, grown>>

\* Its early returns leave the list as it was
EnumFails(u) ==
  /\ pc[u] \in {"size", "enum"} /\ pc' = [pc EXCEPT ![u] = "flush"]
  /\ missed' = missed \cup {"provider"}
  /\ UNCHANGED <<windowsVars, portVars, globalVars, lock, providerList, active,
                 addressList, loaded, adapters, localVars>>

\* WSAENOBUFS: the catalogue has grown, and its notification will come
EnumTooSmall(u) ==
  /\ Cardinality(catalog) > size
  /\ Goto(u, "enum", "flush")
  /\ UNCHANGED <<windowsVars, portVars, globalVars, lock, tableVars, loaded,
                 adapters, localVars>>

\* Provider::Init of those not in the list yet may fail
Failing == SUBSET (catalog \ providerList)

\* A provider whose Init fails is left out
Enum(u) ==
  /\ Cardinality(catalog) <= size
  /\ Goto(u, "enum", "rebuild")
  /\ \E failed \in Failing :
       /\ providerList' = providerList \cup (catalog \ failed)
       /\ active' = catalog \ failed
       /\ missed' = IF failed = {} THEN missed \ {"provider"}
                    ELSE missed \cup {"provider"}
  /\ UNCHANGED <<windowsVars, portVars, globalVars, lock, addressList, loaded,
                 adapters, localVars>>

\* ProcessAddressChange: the table is emptied, and the active providers asked
Rebuild(u) ==
  /\ Goto(u, "rebuild", "ask")
  /\ addressList' = {}
  /\ todo' = active /\ len' = 0 /\ room' = 0 /\ grown' = FALSE
  /\ missed' = missed \ {"address"}
  /\ UNCHANGED <<windowsVars, portVars, globalVars, lock, providerList, active,
                 loaded, adapters, size, asked>>

\* What a provider's answer takes: the head of the list and its addresses
Need(p) == 1 + Cardinality(bound[p])

\* The provider finds a buffer, long enough as it is told
Fits(p) == room > 0 /\ Need(p) <= len

\* A provider's turn ends: BuildAddressList or not, and TryUnload
Answered(u, p, addresses) ==
  /\ pc' = [pc EXCEPT ![u] = "ask"]
  /\ todo' = todo \ {p} /\ asked' = Nobody
  /\ addressList' = addressList \cup (addresses \X {p})
  /\ loaded' = Unloaded({p})
  /\ UNCHANGED <<windowsVars, portVars, globalVars, lock, providerList, active,
                 adapters, size>>

IsAsked(u, p) ==
  \/ pc[u] = "ask" /\ p \in todo
  \/ pc[u] = "again" /\ p = asked

\* The answer fits, at once or into the buffer made for it
Build(u, p) ==
  /\ IsAsked(u, p) /\ Fits(p)
  /\ len' = Need(p)
  /\ Answered(u, p, bound[p])
  /\ UNCHANGED <<missed, room, grown>>

\* A mutant: a longer buffer is not allocated when there is one
OverflowKeeps(u, p) ==
  /\ p \in todo /\ ~Fits(p)
  /\ Goto(u, "ask", "again")
  /\ asked' = p
  /\ len' = Need(p) /\ room' = (IF room = 0 THEN Need(p) ELSE room)
  /\ grown' = FALSE
  /\ loaded' = Unloaded({p})
  /\ UNCHANGED <<windowsVars, portVars, globalVars, lock, tableVars, adapters,
                 size, todo>>

\* ND_BUFFER_OVERFLOW: a buffer of the length the provider asks for
Overflow(u, p) ==
  /\ p \in todo /\ ~Fits(p)
  /\ Goto(u, "ask", "again")
  /\ asked' = p
  /\ len' = Need(p) /\ room' = Need(p) /\ grown' = FALSE
  /\ loaded' = Unloaded({p})
  /\ UNCHANGED <<windowsVars, portVars, globalVars, lock, tableVars, adapters,
                 size, todo>>

\* No memory for it: this provider is left out
NoMemory(u, p) ==
  /\ pc[u] = "ask" /\ p \in todo /\ ~Fits(p)
  /\ len' = Need(p) /\ room' = 0 /\ grown' = FALSE
  /\ missed' = missed \cup {"address"}
  /\ Answered(u, p, {})

\* The addresses have grown since: len is set to what they take now, the buffer
\* stays, and the provider is left out with all of them
Outgrown(u, p) ==
  /\ pc[u] = "again" /\ p = asked /\ ~Fits(p)
  /\ len' = Need(p) /\ grown' = TRUE
  /\ missed' = missed \cup {"address"}
  /\ Answered(u, p, {})
  /\ UNCHANGED room

\* The DLL or the provider answers an error
QueryFails(u, p) ==
  /\ IsAsked(u, p)
  /\ missed' = missed \cup {"address"}
  /\ Answered(u, p, {})
  /\ UNCHANGED <<len, room, grown>>

AllAsked(u) ==
  /\ todo = {}
  /\ Goto(u, "ask", "flush")
  /\ len' = 0 /\ room' = 0 /\ grown' = FALSE
  /\ UNCHANGED <<windowsVars, portVars, globalVars, lock, tableVars, loaded,
                 adapters, size, todo, asked>>

\* Mutants: a provider is deleted when it is idle, or no longer listed; when it
\* is no longer listed
FlushedEither ==
  /\ loaded' = Unloaded(providerList)
  /\ providerList' = {p \in providerList : p \in active /\ ~Idle(p)}

FlushedInactive ==
  /\ loaded' = Unloaded(providerList)
  /\ providerList' = providerList \cap active

\* FlushProviders: DLLs no object is left of are unloaded, and the providers
\* among them that the catalogue no longer lists are deleted
Flushed ==
  /\ loaded' = Unloaded(providerList)
  /\ providerList' = {p \in providerList : p \in active \/ ~Idle(p)}

Flush(u) ==
  /\ Goto(u, "flush", "poll")
  /\ Flushed /\ lock' = Nobody /\ size' = 0
  /\ UNCHANGED <<windowsVars, portVars, globalVars, active, addressList, missed,
                 adapters, todo, asked, len, room, grown>>

---------------------------------------------------------------------------
(* The calls, after ProcessUpdates and under the lock                      *)

\* QueryAddressList, ResolveAddress and CheckAddress only read the table; an
\* OpenAdapter may find no provider, or none that opens: then those it tried
\* are unloaded
LookUp(u) ==
  /\ lock = Nobody
  /\ Goto(u, "look", "in")
  /\ \E tried \in SUBSET {x[2] : x \in addressList} : loaded' = Unloaded(tried)
  /\ UNCHANGED <<windowsVars, portVars, globalVars, lock, tableVars, adapters,
                 localVars>>

\* The providers of the version that the table gives for an address
Candidates(a, v) == {p \in Providers : <<a, p>> \in addressList /\ Version[p] = v}

\* GetClassObject loads the DLL; TryUnload finds the adapter and keeps it.  The
\* ones tried before are unloaded
Opened(p, tried) == Unloaded(tried) \cup {p}

\* OpenAdapter: the first of them that opens
OpenAdapter(u, a, v) ==
  /\ lock = Nobody
  /\ Goto(u, "look", "in")
  /\ \E p \in Candidates(a, v), tried \in SUBSET Candidates(a, v) :
       /\ p \notin tried
       /\ <<u, p>> \notin adapters
       /\ adapters' = adapters \cup {<<u, p>>}
       /\ loaded' = Opened(p, tried)
  /\ UNCHANGED <<windowsVars, portVars, globalVars, lock, tableVars, localVars>>

\* The user releases its adapter; the DLL stays until the next flush
CloseAdapter(u, p) ==
  /\ pc[u] = "in" /\ <<u, p>> \in adapters
  /\ adapters' = adapters \ {<<u, p>>}
  /\ UNCHANGED <<windowsVars, portVars, globalVars, lock, tableVars, loaded, pc,
                 localVars>>

FlushProvidersForUser(u) ==
  /\ pc[u] = "in" /\ lock = Nobody
  /\ Flushed
  /\ UNCHANGED <<windowsVars, portVars, globalVars, lock, active, addressList,
                 missed, adapters, pc, localVars>>

---------------------------------------------------------------------------
(* Windows                                                                 *)

\* A request in m_Ov completes, if there is one
Notify(k) ==
  /\ iocp' = iocp \cup (armed \cap {k})
  /\ armed' = armed \ {k}
  /\ UNCHANGED lost

CatalogChange(p) ==
  /\ changes < MaxChanges /\ changes' = changes + 1
  /\ catalog' = IF p \in catalog THEN catalog \ {p} ELSE catalog \cup {p}
  /\ Notify("provider")
  /\ UNCHANGED <<bound, globalVars, lock, tableVars, loaded, adapters, pc,
                 localVars>>

\* The notifications are those of an AF_INET socket: they tell of IPv4 addresses
AddressChange(p, a) ==
  /\ changes < MaxChanges /\ changes' = changes + 1
  /\ bound' = [bound EXCEPT ![p] = IF a \in @ THEN @ \ {a} ELSE @ \cup {a}]
  /\ \/ a \in IPv4 /\ Notify("address")
     \/ a \notin IPv4 /\ UNCHANGED portVars
  /\ UNCHANGED <<catalog, globalVars, lock, tableVars, loaded, adapters, pc,
                 localVars>>

\* A request completes with an error: ProcessUpdates takes it off the port,
\* and does not make it again
NotificationFails(u, k) ==
  /\ pc[u] = "poll" /\ k \in armed
  /\ armed' = armed \ {k} /\ lost' = lost \cup {k}
  /\ UNCHANGED <<windowsVars, iocp, globalVars, lock, tableVars, loaded,
                 adapters, pc, localVars>>

---------------------------------------------------------------------------

\* What a user's thread does by itself once it is in a call
Proceed(u) ==
  \/ Acquire(u, "startup", "starting")
  \/ Create(u) \/ StartupFails(u) \/ AddRef(u)
  \/ Acquire(u, "cleanup", "releasing")
  \/ Release(u) \/ Destroy(u)
  \/ \E k \in Requests : Poll(u, k) \/ TakeLock(u, k)
  \/ PollEmpty(u)
  \/ EnumSize(u) \/ EnumFails(u) \/ EnumTooSmall(u) \/ Enum(u)
  \/ Rebuild(u)
  \/ \E p \in Providers :
       \/ Build(u, p) \/ Overflow(u, p) \/ NoMemory(u, p) \/ Outgrown(u, p)
       \/ QueryFails(u, p)
  \/ AllAsked(u) \/ Flush(u)
  \/ LookUp(u)
  \/ \E a \in Addresses, v \in {1, 2} : OpenAdapter(u, a, v)

Next ==
  \/ \E u \in Users :
       \/ Proceed(u)
       \/ CallStartup(u) \/ CallCleanup(u) \/ Call(u)
       \/ FlushProvidersForUser(u)
       \/ \E p \in Providers : CloseAdapter(u, p)
       \/ \E k \in Requests : NotificationFails(u, k)
  \/ \E p \in Providers : CatalogChange(p)
  \/ \E p \in Providers, a \in Addresses : AddressChange(p, a)

Spec == Init /\ [][Next]_vars

---------------------------------------------------------------------------
(* Properties                                                              *)

Bracketed == {u \in Users : pc[u] \notin {"out", "startup", "starting", "addref",
                                          "destroying"}}
InSpinLock == {u \in Users : pc[u] \in {"starting", "addref", "releasing",
                                        "destroying"}}
Holders == {u \in Users : pc[u] \in {"size", "enum", "rebuild", "ask", "again",
                                     "flush"}}

\* Every variable has its type, and the critical section is owned by the thread
\* that is inside it.
TypeOK ==
  /\ catalog \subseteq Providers /\ providerList \subseteq Providers
  /\ active \subseteq Providers /\ loaded \subseteq Providers
  /\ bound \in [Providers -> SUBSET Addresses]
  /\ addressList \subseteq Addresses \X Providers
  /\ adapters \subseteq Users \X Providers
  /\ armed \subseteq Requests /\ iocp \subseteq Requests
  /\ lost \subseteq Requests /\ missed \subseteq Requests
  /\ gInitializing \in {0, 1} /\ nRef \in 0..Cardinality(Users)
  /\ framework \in {"null", "live", "freed"} /\ heap \in BOOLEAN
  /\ Holders = {lock} \ {Nobody}

\* NdStartup and NdCleanup of several threads: whoever is between its own two
\* has the framework and the heap, the count is that of those threads, nobody
\* who finds the spin lock open finds a pointer to a deleted framework, and no
\* way out of the two leaves it closed.
UserSafe ==
  /\ gInitializing = Cardinality(InSpinLock)
  /\ Bracketed # {} => framework = "live" /\ heap
  /\ nRef = Cardinality(Bracketed)
  /\ gInitializing = 0 => framework # "freed" /\ (heap <=> framework = "live")

\* An address never names a deleted provider: m_pProvider of each one in the
\* table is in the list, however changes, flushes and open adapters meet.
AddressesServed == \A x \in addressList : x[2] \in providerList

\* The DLL of an open adapter stays loaded, and its provider in the list, through
\* every unload another call tries and every change of the catalogue.
AdapterBacked == \A x \in adapters : x[2] \in providerList \cap loaded

\* Nothing is known of a change that would still have to be handled, and no
\* request or rebuild has failed.
Settled ==
  /\ framework = "live" /\ iocp = {} /\ lost = {} /\ missed = {}
  /\ \A u \in Users : pc[u] \notin Requests
  /\ lock = Nobody

\* What the table of these addresses should say.
Served(as) == {x \in as \X Providers : x[2] \in catalog /\ x[1] \in bound[x[2]]}

\* No change is missed that a notification can tell of: once none is on the port
\* or being handled, and unless a request or a rebuild has failed, the providers
\* and their IPv4 addresses are what Windows says now.
TablesCurrent ==
  Settled => /\ active = catalog
             /\ {x \in addressList : x[1] \in IPv4} = Served(IPv4)

\* QueryAddressList is given the length of the buffer at hand, which serves
\* provider after provider, as long as no answer has outgrown it.
LengthIsOfBuffer == room > 0 /\ ~grown => len <= room

=============================================================================
