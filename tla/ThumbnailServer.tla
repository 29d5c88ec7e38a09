-------------------------- MODULE ThumbnailServer --------------------------
(***************************************************************************)
(* The COM server of the Windows thumbnail handler (lib.rs,                *)
(* class_factory.rs, provider.rs): factories and providers that count      *)
(* their references, the count of objects and the count of locks that      *)
(* DllCanUnloadNow reads, one after the other, and the document bytes that *)
(* a provider reads from a stream once and renders any number of times.    *)
(* Every atomic operation is a step, and the threads of the host           *)
(* interleave between them.                                                *)
(***************************************************************************)
EXTENDS Naturals, FiniteSets

CONSTANTS Threads,        \* threads of the host that call the server
          Objects,        \* places for objects in memory
          NoObject,
          MaxReferences,  \* bound: references a thread holds to one object
          MaxLocks,       \* bound: locks a thread holds
          MaxInput, Chunk \* MAX_INPUT_BYTES and the bytes one read of a stream may give

ASSUME ServerAssumption ==
  /\ NoObject \notin Objects /\ IsFiniteSet(Objects) /\ "nobody" \notin Threads
  /\ MaxReferences \in Nat \ {0} /\ MaxLocks \in Nat
  /\ MaxInput \in Nat /\ Chunk \in Nat \ {0}

VARIABLES object,   \* what each place holds: the kind, the references, the bytes, the mutex
          count,    \* OBJECT_COUNT
          locks,    \* SERVER_LOCKS
          call,     \* the call each thread is in
          held,     \* references each thread holds to each object
          locked,   \* locks each thread holds
          query     \* DllCanUnloadNow: where it is, and (history) what has lived since it began

server == <<object, count, locks, call, held, locked, query>>

Unused == [kind |-> "free", references |-> 0, bytes |-> {}, reader |-> "nobody"]
Idle == [at |-> "idle", on |-> NoObject, length |-> 0]
At(p, o) == [at |-> p, on |-> o, length |-> 0]

InitServer ==
  /\ object = [o \in Objects |-> Unused]
  /\ count = 0 /\ locks = 0
  /\ call = [t \in Threads |-> Idle]
  /\ held = [t \in Threads |-> [o \in Objects |-> 0]]
  /\ locked = [t \in Threads |-> 0]
  /\ query = [at |-> "idle", lived |-> {}, lock |-> 0]

Allocated == {o \in Objects : object[o].kind # "free"}
Goes(t, c) == call' = [call EXCEPT ![t] = c]
\* A caller holds a reference to the object it calls.
MayCall(t, o) == call[t] = Idle /\ held[t][o] > 0

-----------------------------------------------------------------------------
(***************************************************************************)
(* DllGetClassObject and IClassFactory::CreateInstance make an object with *)
(* one reference, ask it for the interface and release that reference.     *)
(***************************************************************************)
\* create_factory, create_provider
Create(t, o, kind) ==
  /\ object[o] = Unused
  /\ object' = [object EXCEPT ![o] = [Unused EXCEPT !.kind = kind, !.references = 1]]
  /\ count' = count + 1
  /\ Goes(t, At("query", o))
\* get_class_object, when the class is this handler's
GetClassObject(t) ==
  /\ call[t] = Idle
  /\ \E o \in Objects : Create(t, o, "factory")
  /\ UNCHANGED <<locks, held, locked, query>>
\* create_instance, without an outer object
CreateInstance(t) ==
  /\ \E f \in Objects : MayCall(t, f) /\ object[f].kind = "factory"
  /\ \E o \in Objects : Create(t, o, "provider")
  /\ UNCHANGED <<locks, held, locked, query>>

\* query_interface: an interface the object has is handed out with a reference of its own
QueryInterface(t) ==
  /\ call[t].at = "query"
  /\ LET o == call[t].on IN
     /\ \/ /\ object' = [object EXCEPT ![o].references = @ + 1]
           /\ held' = [held EXCEPT ![t][o] = @ + 1]
        \/ UNCHANGED <<object, held>>           \* E_NOINTERFACE
     /\ Goes(t, At("release", o))
  /\ UNCHANGED <<count, locks, locked, query>>

\* AddRef, for the caller or for another thread that is handed the object
AddRef(t, u, o) ==
  /\ MayCall(t, o) /\ held[u][o] < MaxReferences
  /\ object' = [object EXCEPT ![o].references = @ + 1]
  /\ held' = [held EXCEPT ![u][o] = @ + 1]
  /\ UNCHANGED <<count, locks, call, locked, query>>

(***************************************************************************)
(* release: the last reference counts the object down and frees it.        *)
(***************************************************************************)
StartRelease(t, o) ==
  /\ MayCall(t, o)
  /\ held' = [held EXCEPT ![t][o] = @ - 1]
  /\ Goes(t, At("release", o))
  /\ UNCHANGED <<object, count, locks, locked, query>>
Release(t) ==
  /\ call[t].at = "release"
  /\ LET o == call[t].on IN
     /\ object' = [object EXCEPT ![o].references = @ - 1]
     /\ Goes(t, IF object[o].references = 1 THEN At("destroy", o) ELSE Idle)
  /\ UNCHANGED <<count, locks, held, locked, query>>
Forgotten(o) == query' = [query EXCEPT !.lived = @ \ {o}]
\* object_destroyed
Destroy(t) ==
  /\ call[t].at = "destroy"
  /\ count' = count - 1 /\ Forgotten(call[t].on)
  /\ Goes(t, At("drop", call[t].on))
  /\ UNCHANGED <<object, locks, held, locked>>
Drop(t) ==
  /\ call[t].at = "drop"
  /\ object' = [object EXCEPT ![call[t].on] = Unused]
  /\ Goes(t, Idle)
  /\ UNCHANGED <<count, locks, held, locked, query>>

(***************************************************************************)
(* set_server_lock: the count of locks never goes below zero.              *)
(***************************************************************************)
LockServer(t) ==
  /\ \E f \in Objects : MayCall(t, f) /\ object[f].kind = "factory"
  /\ locked[t] < MaxLocks
  /\ locks' = locks + 1 /\ locked' = [locked EXCEPT ![t] = @ + 1]
  /\ UNCHANGED <<object, count, call, held, query>>
\* (mutant) The count goes down whether or not there is a lock.
LockSubtracted(n) == n - 1
LockReleased(n) == IF n = 0 THEN 0 ELSE n - 1
\* (history) An unlock takes the caller's lock.  A host that unlocks once too often takes the
\* lock of another thread, or nobody's when nothing is locked.
LosesLock(t, u) ==
  IF locked[t] > 0 THEN u = t ELSE locked[u] > 0 \/ \A v \in Threads : locked[v] = 0
UnlockServer(t) ==
  /\ \E f \in Objects : MayCall(t, f) /\ object[f].kind = "factory"
  /\ locks' = LockReleased(locks)
  /\ \E u \in Threads :
       LosesLock(t, u) /\ locked' = [locked EXCEPT ![u] = IF @ = 0 THEN 0 ELSE @ - 1]
  /\ query' = [query EXCEPT !.lock = IF @ > locks' THEN locks' ELSE @]
  /\ UNCHANGED <<object, count, call, held>>

(***************************************************************************)
(* DllCanUnloadNow reads the two counts one after the other.               *)
(***************************************************************************)
\* (history) the objects and locks there are as the question is asked
CanUnloadNow ==
  /\ query.at = "idle"
  /\ query' = [at |-> "objects", lock |-> locks,
               lived |-> {o \in Allocated : \A t \in Threads : call[t] # At("drop", o)}]
  /\ UNCHANGED <<object, count, locks, call, held, locked>>
Replied(yes) == query' = IF yes THEN [query EXCEPT !.at = "unload"]
                                 ELSE [at |-> "idle", lived |-> {}, lock |-> 0]
ReadObjects ==
  /\ query.at = "objects"
  /\ IF count = 0 THEN query' = [query EXCEPT !.at = "locks"] ELSE Replied(FALSE)
  /\ UNCHANGED <<object, count, locks, call, held, locked>>
ReadLocks ==
  /\ query.at = "locks" /\ Replied(locks = 0)
  /\ UNCHANGED <<object, count, locks, call, held, locked>>
\* The host has the answer S_OK and unloads, or asks again later.
HostKnows ==
  /\ query.at = "unload" /\ Replied(FALSE)
  /\ UNCHANGED <<object, count, locks, call, held, locked>>

(***************************************************************************)
(* A provider reads its stream once, under its mutex.                      *)
(***************************************************************************)
Provides(t, o) == MayCall(t, o) /\ object[o].kind = "provider"
StartInitialize(t, o) ==
  /\ Provides(t, o) /\ Goes(t, At("lock", o))
  /\ UNCHANGED <<object, count, locks, held, locked, query>>
\* initialize_inner: the mutex, and ERROR_ALREADY_INITIALIZED
Lock(t) ==
  /\ call[t].at = "lock" /\ object[call[t].on].reader = "nobody"
  /\ LET o == call[t].on IN
     IF object[o].bytes # {} THEN Goes(t, Idle) /\ UNCHANGED object
     ELSE Goes(t, At("stat", o)) /\ object' = [object EXCEPT ![o].reader = t]
  /\ UNCHANGED <<count, locks, held, locked, query>>
ReadEnds(t, bytes) ==
  /\ object' = [object EXCEPT ![call[t].on].reader = "nobody", ![call[t].on].bytes = bytes]
  /\ Goes(t, Idle)
ReadFails(t) == ReadEnds(t, object[call[t].on].bytes)
\* read_stream: a stream that says it is too long is not read, nor one that cannot be rewound
Stat(t) ==
  /\ call[t].at = "stat"
  /\ \/ ReadFails(t)
     \/ Goes(t, At("read", call[t].on)) /\ UNCHANGED object
  /\ UNCHANGED <<count, locks, held, locked, query>>
\* read_stream_chunks: a stream may go on past the length it has told
ReadChunk(t) ==
  /\ call[t].at = "read"
  /\ \/ \E n \in 1..Chunk :
          IF call[t].length + n > MaxInput THEN ReadFails(t)
          ELSE Goes(t, [call[t] EXCEPT !.length = @ + n]) /\ UNCHANGED object
     \/ ReadEnds(t, {call[t].length})
     \/ ReadFails(t)
  /\ UNCHANGED <<count, locks, held, locked, query>>
\* get_thumbnail_inner: the bytes are shared under the mutex and rendered without it
StartThumbnail(t, o) ==
  /\ Provides(t, o) /\ object[o].reader = "nobody"
  /\ object[o].bytes # {}                   \* otherwise E_UNEXPECTED, at once
  /\ Goes(t, [at |-> "render", on |-> o, length |-> CHOOSE n \in object[o].bytes : TRUE])
  /\ UNCHANGED <<object, count, locks, held, locked, query>>
\* render_thumbnail (ThumbnailWorker) and create_bitmap: an image or an error
EndThumbnail(t) ==
  /\ call[t].at = "render" /\ Goes(t, Idle)
  /\ UNCHANGED <<object, count, locks, held, locked, query>>

NextServer ==
  \/ \E t \in Threads :
       \/ GetClassObject(t) \/ CreateInstance(t) \/ QueryInterface(t)
       \/ Release(t) \/ Destroy(t) \/ Drop(t)
       \/ LockServer(t) \/ UnlockServer(t)
       \/ Lock(t) \/ Stat(t) \/ ReadChunk(t) \/ EndThumbnail(t)
       \/ \E o \in Objects : \/ StartRelease(t, o) \/ StartInitialize(t, o) \/ StartThumbnail(t, o)
                             \/ \E u \in Threads : AddRef(t, u, o)
  \/ CanUnloadNow \/ ReadObjects \/ ReadLocks \/ HostKnows

ServerSpec == InitServer /\ [][NextServer]_server

-----------------------------------------------------------------------------
Places == {"idle", "query", "release", "destroy", "drop", "lock", "stat", "read", "render"}
ServerTypeOK ==
  /\ object \in [Objects -> [kind : {"free", "factory", "provider"}, references : Nat,
                            bytes : SUBSET (0..MaxInput), reader : Threads \cup {"nobody"}]]
  /\ count \in 0..Cardinality(Objects)
  /\ locks \in Nat
  /\ call \in [Threads -> [at : Places, on : Objects \cup {NoObject}, length : 0..MaxInput]]
  /\ held \in [Threads -> [Objects -> Nat]]
  /\ locked \in [Threads -> 0..MaxLocks]
  /\ query \in [at : {"idle", "objects", "locks", "unload"}, lived : SUBSET Objects, lock : Nat]

\* One token for each of the h[t] that a thread holds, and one more for each thread of p
Tokens(h, p) == UNION {{t} \X {i \in 0..h[t] : i > 0 \/ t \in p} : t \in Threads}
\* The calls that make an object or give up a reference to it, and those that free it
HandedBy(o) == {t \in Threads : call[t].on = o /\ call[t].at \in {"query", "release"}}
FreedBy(o) == {t \in Threads : call[t].on = o /\ call[t].at \in {"destroy", "drop"}}
Users(o) == Tokens([t \in Threads |-> held[t][o]], HandedBy(o))

\* The references of an object are those its callers hold and the one each call that makes or
\* gives up an object still has: the object is freed when, and only when, nobody uses it.
ReferencesTrue ==
  \A o \in Objects :
    /\ object[o].references = Cardinality(Users(o))
    /\ object[o].references = 0 <=> object[o].kind = "free" \/ FreedBy(o) # {}

\* The two counts of the server are true: every object that is not being dropped is counted
\* once, and every lock that is held; an unlock too many takes one lock that there is, or none.
Living == {o \in Allocated : \A t \in Threads : call[t] # At("drop", o)}
CountsTrue ==
  /\ count = Cardinality(Living)
  /\ locks = Cardinality(Tokens(locked, {}))

\* DllCanUnloadNow says yes only if no object and no lock that was there when it was asked
\* is still there.  (It does not see a client that goes from a lock to an object between
\* the two reads.)
UnloadSparesTheLiving == query.at = "unload" => query.lived = {} /\ query.lock = 0

\* A provider is initialized once: of two threads that bring a stream one wins, and the bytes
\* never change under a thumbnail that is being made of them.
RendersItsBytes ==
  \A t \in Threads : call[t].at = "render" => object[call[t].on].bytes = {call[t].length}

\* However threads interleave, an object lives as long as somebody uses it, the server as long
\* as an object or a lock, and a thumbnail is made of one document.
ServerSound == ReferencesTrue /\ CountsTrue /\ UnloadSparesTheLiving /\ RendersItsBytes
=============================================================================
