----------------------------- MODULE SharedObjects -----------------------------
(***************************************************************************)
(* The two objects every request shares: the cache of icons and the key    *)
(* pair, built by the first thread that needs them and used by all.        *)
(*                                                                         *)
(* The cache is a map under a mutex; entries are never replaced, which is  *)
(* why its users may read them after the mutex is released.  The key pair  *)
(* is a local static object: one thread runs its constructor, the others   *)
(* wait, and when the constructor throws the next caller tries again.      *)
(* Blocks are sealed under a second mutex, and opened under none.  An      *)
(* application may ask for another key pair at any time, with reset(),     *)
(* which takes no mutex either: it frees the key, whoever is using it, and *)
(* generates the next, or throws and leaves none.                          *)
(***************************************************************************)
EXTENDS Naturals

CONSTANTS
    Threads,    \* worker threads of the embedded server
    Names,      \* names icons are asked by
    Paths,      \* icon files
    MaxKey,     \* bound: key pairs generated, by all runs of the program
    Empty,      \* the empty file name: no such icon
    None        \* absent

ASSUME MaxKeyAssumption == MaxKey \in Nat

VARIABLES
    theme,      \* theme[n]: the file icon n has now
    cache,      \* cache[n]: the entry of n, or None
    cacheLock,  \* the owner of the cache's mutex, or None
    built,      \* is the key pair's object constructed?
    pair,       \* the key it holds: the number of its generation, or None
    builder,    \* the thread in the key pair's constructor, or None
    pairLock,   \* the owner of the key pair's mutex, or None
    made,       \* key pairs generated
    given,      \* history: given[k]: were blocks sealed with k handed out,
                \* and has k been held since?
    job,        \* job[t]: what thread t is doing, or None
    told,       \* history: told[t]: the icon t was last given
    verdict     \* verdict[t]: what t found of the last block it opened

objects == <<cache, built, pair>>
locks   == <<cacheLock, builder, pairLock>>
keys    == <<made, given>>
vars    == <<theme, objects, locks, keys, job, told, verdict>>

Generations == 1..MaxKey
Icons       == Paths \cup {Empty}
KeyOps      == {"seal", "open", "pem", "reset"}

IconJobs == [op : {"icon"}, pc : {"lock", "search", "load", "insert"},
             name : Names, icon : Icons]

(* Of a key job, "key" is the key it saw first, and "valid" is history: was
   the key of its block held when it began? *)
KeyJobs  == [op : KeyOps,
             pc : {"get", "construct", "lock", "test", "seal", "size", "open",
                   "pem", "write", "free", "generate"},
             block : {0} \cup Generations, valid : BOOLEAN,
             key : Generations \cup {None}]
Jobs     == IconJobs \cup KeyJobs
Verdicts == [block : {0} \cup Generations, good : BOOLEAN]

ASSUME SentinelsAssumption ==
    /\ Empty \notin Paths
    /\ None \notin Threads \cup Paths \cup Nat \cup {Empty}
    /\ None \notin Jobs \cup Verdicts

-----------------------------------------------------------------------------
At(t, pc) == job[t] # None /\ job[t].pc = pc

Goto(t, pc) == job' = [job EXCEPT ![t].pc = pc]

(* The call of t ends, with or without an exception ... *)
Finish(t) == job' = [job EXCEPT ![t] = None]

(* ... or t is given icon n: v. *)
Give(t, n, v) ==
    /\ told' = [told EXCEPT ![t] = [entry |-> n, value |-> v]]
    /\ Finish(t)

Init ==
    /\ theme \in [Names -> Icons]
    /\ cache = [n \in Names |-> None]
    /\ cacheLock = None
    /\ built = FALSE
    /\ pair = None
    /\ builder = None
    /\ pairLock = None
    /\ made = 0
    /\ given = [k \in Generations |-> "never"]
    /\ job = [t \in Threads |-> None]
    /\ told = [t \in Threads |-> None]
    /\ verdict = [t \in Threads |-> None]

Idle(t) == job[t] = None

Clear(t) ==
    /\ told' = [told EXCEPT ![t] = None]
    /\ verdict' = [verdict EXCEPT ![t] = None]

-----------------------------------------------------------------------------
(* Icon::getInstance: Controller::find *)

AskIcon(t, n) ==
    /\ Idle(t)
    /\ job' = [job EXCEPT ![t] = [op |-> "icon", pc |-> "lock", name |-> n, icon |-> Empty]]
    /\ Clear(t)
    /\ UNCHANGED <<theme, objects, locks, keys>>

LockForgotten(t) ==  \* no lock_guard
    /\ At(t, "lock")
    /\ job[t].op = "icon"
    /\ cacheLock' = t
    /\ Goto(t, "search")
    /\ UNCHANGED <<theme, objects, builder, pairLock, keys, told, verdict>>

LockCache(t) ==
    /\ At(t, "lock")
    /\ job[t].op = "icon"
    /\ cacheLock = None
    /\ cacheLock' = t
    /\ Goto(t, "search")
    /\ UNCHANGED <<theme, objects, builder, pairLock, keys, told, verdict>>

RefreshStale(t) ==  \* an entry that is out of date is loaded again
    /\ At(t, "search")
    /\ LET n == job[t].name IN
       IF cache[n] = theme[n]
       THEN cacheLock' = None /\ Give(t, n, cache[n]) /\ UNCHANGED cache
       ELSE /\ cache' = [cache EXCEPT ![n] = None]
            /\ Goto(t, "load")
            /\ UNCHANGED <<cacheLock, told>>
    /\ UNCHANGED <<theme, built, pair, builder, pairLock, keys, verdict>>

(* An entry is an entry, also when it says that there is no such icon. *)
SearchCache(t) ==
    /\ At(t, "search")
    /\ LET n == job[t].name IN
       IF cache[n] # None
       THEN cacheLock' = None /\ Give(t, n, cache[n])
       ELSE Goto(t, "load") /\ UNCHANGED <<cacheLock, told>>
    /\ UNCHANGED <<theme, objects, builder, pairLock, keys, verdict>>

LoadKeepsLock(t) ==  \* lock() and unlock() for lock_guard
    /\ At(t, "load")
    /\ \/ /\ job' = [job EXCEPT ![t].pc = "insert", ![t].icon = theme[job[t].name]]
          /\ UNCHANGED told
       \/ Finish(t) /\ UNCHANGED told
    /\ UNCHANGED <<theme, objects, locks, keys, verdict>>

NothingLoaded(t) ==  \* no icon, no file name at all
    /\ At(t, "load")
    /\ \/ /\ job' = [job EXCEPT ![t].pc = "insert",
                            ![t].icon = IF theme[job[t].name] = Empty THEN None
                                        ELSE theme[job[t].name]]
          /\ UNCHANGED <<cacheLock, told>>
       \/ cacheLock' = None /\ Finish(t) /\ UNCHANGED told
    /\ UNCHANGED <<theme, objects, builder, pairLock, keys, verdict>>

(* Icon(name): the file the theme has for the name, now.  An exception
   releases the mutex on its way and leaves no entry. *)
LoadIcon(t) ==
    /\ At(t, "load")
    /\ \/ /\ job' = [job EXCEPT ![t].pc = "insert", ![t].icon = theme[job[t].name]]
          /\ UNCHANGED <<cacheLock, told>>
       \/ cacheLock' = None /\ Finish(t) /\ UNCHANGED told
    /\ UNCHANGED <<theme, objects, builder, pairLock, keys, verdict>>

(* emplace: leaves an entry that is there alone *)
InsertIcon(t) ==
    /\ At(t, "insert")
    /\ LET n == job[t].name
           v == IF cache[n] = None THEN job[t].icon ELSE cache[n]
       IN /\ cache' = [cache EXCEPT ![n] = v]
          /\ Give(t, n, v)
    /\ cacheLock' = None
    /\ UNCHANGED <<theme, built, pair, builder, pairLock, keys, verdict>>

-----------------------------------------------------------------------------
(* KeyPair *)

(* No block that is out there was sealed with a key that is held. *)
Retired == [k \in Generations |-> IF given[k] = "now" THEN "before" ELSE given[k]]

(* The program stops and starts again. *)
Restart ==
    /\ cache' = [n \in Names |-> None]
    /\ built' = FALSE
    /\ pair' = None
    /\ cacheLock' = None
    /\ builder' = None
    /\ pairLock' = None
    /\ given' = Retired
    /\ job' = [t \in Threads |-> None]
    /\ told' = [t \in Threads |-> None]
    /\ verdict' = [t \in Threads |-> None]
    /\ UNCHANGED <<theme, made>>

(* A block is opened that somebody was given, or that nobody was: 0. *)
Presented == {0} \cup {k \in Generations : given[k] # "never"}

Held(b) == b # 0 /\ given[b] = "now"

AskKey(t, op) ==
    /\ Idle(t)
    /\ \E b \in IF op = "open" THEN Presented ELSE {0} :
          job' = [job EXCEPT ![t] =
                    [op |-> op, pc |-> "get", block |-> b, valid |-> Held(b), key |-> None]]
    /\ Clear(t)
    /\ UNCHANGED <<theme, objects, locks, keys>>

FirstStep(op) ==
    CASE op = "seal" -> "lock" [] op = "open"  -> "size"
      [] op = "pem"  -> "pem"  [] op = "reset" -> "free"

PointerBeforeReset(t) ==  \* the instance is there from the start of its building
    /\ At(t, "get")
    /\ \/ /\ built \/ builder # None
          /\ Goto(t, FirstStep(job[t].op))
          /\ UNCHANGED builder
       \/ /\ ~ built
          /\ builder = None
          /\ builder' = t
          /\ Goto(t, "construct")
    /\ UNCHANGED <<theme, objects, cacheLock, pairLock, keys, told, verdict>>

CheckThenBuild(t) ==  \* if(!instance) instance = new KeyPair, without a guard
    /\ At(t, "get")
    /\ \/ /\ built
          /\ Goto(t, FirstStep(job[t].op))
          /\ UNCHANGED builder
       \/ /\ ~ built
          /\ builder' = t
          /\ Goto(t, "construct")
    /\ UNCHANGED <<theme, objects, cacheLock, pairLock, keys, told, verdict>>

(* getInstance: the object, once it is built; to build it, when nobody does;
   else wait. *)
GetInstance(t) ==
    /\ At(t, "get")
    /\ \/ /\ built
          /\ Goto(t, FirstStep(job[t].op))
          /\ UNCHANGED builder
       \/ /\ ~ built
          /\ builder = None
          /\ builder' = t
          /\ Goto(t, "construct")
    /\ UNCHANGED <<theme, objects, cacheLock, pairLock, keys, told, verdict>>

(* The constructor: its reset() generates the key, or throws, and then there
   is no object. *)
Construct(t) ==
    /\ At(t, "construct")
    /\ builder' = None
    /\ \/ /\ made < MaxKey
          /\ made' = made + 1
          /\ pair' = made + 1
          /\ built' = TRUE
          /\ Goto(t, FirstStep(job[t].op))
       \/ Finish(t) /\ UNCHANGED <<made, pair, built>>
    /\ UNCHANGED <<theme, cache, cacheLock, pairLock, given, told, verdict>>

(* reset() of an object that is built.  The test, the release and the
   assignment of the key are one step unless two threads are there: then the
   key may be freed twice, which ends the program. *)
FreeKey(t) ==
    /\ At(t, "free")
    /\ \/ /\ pair' = None
          /\ given' = Retired
          /\ Goto(t, "generate")
          /\ UNCHANGED <<theme, cache, built, locks, made, told, verdict>>
       \/ /\ pair # None
          /\ \E u \in Threads \ {t} : At(u, "free")
          /\ Restart

(* The next key, over one that another reset may have left; or an exception,
   and the object keeps what it has. *)
GenerateKey(t) ==
    /\ At(t, "generate")
    /\ \/ /\ made < MaxKey
          /\ made' = made + 1
          /\ pair' = made + 1
          /\ given' = Retired
       \/ UNCHANGED <<made, pair, given>>
    /\ Finish(t)
    /\ UNCHANGED <<theme, cache, built, locks, told, verdict>>

(* A call that uses the key reads it at least twice: to test or measure it
   first, and to work with it.  When a reset comes between, it works with a
   key that is freed, with the next, or with none, and may take the program
   with it. *)
SeeKey(t, pc) ==
    /\ pair # None
    /\ job' = [job EXCEPT ![t].pc = pc, ![t].key = pair]

Raced(t) == pair # job[t].key

KeysSeen(t) == {job[t].key, pair} \ {None}

LockPair(t) ==
    /\ At(t, "lock")
    /\ job[t].op = "seal"
    /\ pairLock = None
    /\ pairLock' = t
    /\ Goto(t, "test")
    /\ UNCHANGED <<theme, objects, cacheLock, builder, keys, told, verdict>>

(* encrypt: without a key it throws. *)
EncryptTest(t) ==
    /\ At(t, "test")
    /\ \/ SeeKey(t, "seal") /\ UNCHANGED pairLock
       \/ pair = None /\ Finish(t) /\ pairLock' = None
    /\ UNCHANGED <<theme, objects, cacheLock, builder, keys, told, verdict>>

(* The block is on its way to a browser or a client, or sealing failed. *)
Encrypt(t) ==
    /\ At(t, "seal")
    /\ \/ /\ pairLock' = None
          /\ \/ \E k \in KeysSeen(t) :
                   given' = [given EXCEPT ![k] = IF k = pair THEN "now" ELSE "before"]
             \/ UNCHANGED given
          /\ Finish(t)
          /\ UNCHANGED <<theme, objects, cacheLock, builder, made, told, verdict>>
       \/ Raced(t) /\ Restart

(* decrypt: the key is read without the mutex, for its size, which ends the
   program when there is none ... *)
DecryptSize(t) ==
    /\ At(t, "size")
    /\ \/ /\ SeeKey(t, "open")
          /\ UNCHANGED <<theme, objects, locks, keys, told, verdict>>
       \/ pair = None /\ Restart

(* ... and to open the block, which only the key that sealed it does. *)
Decrypt(t) ==
    /\ At(t, "open")
    /\ \/ /\ \E good \in {job[t].block = k : k \in KeysSeen(t)}
                         \cup (IF Raced(t) THEN {FALSE} ELSE {}) :
                verdict' = [verdict EXCEPT ![t] = [block |-> job[t].block, good |-> good]]
          /\ Finish(t)
          /\ UNCHANGED <<theme, objects, locks, keys, told>>
       \/ Raced(t) /\ Restart

(* to_string, for "/pubkey.pem": the public key, or nothing *)
ToStringTest(t) ==
    /\ At(t, "pem")
    /\ SeeKey(t, "write") \/ (pair = None /\ Finish(t))
    /\ UNCHANGED <<theme, objects, locks, keys, told, verdict>>

ToString(t) ==
    /\ At(t, "write")
    /\ \/ /\ Finish(t)
          /\ UNCHANGED <<theme, objects, locks, keys, told, verdict>>
       \/ Raced(t) /\ Restart

-----------------------------------------------------------------------------
(* Icons are installed and removed. *)
Install(n) ==
    /\ \E i \in Icons : theme' = [theme EXCEPT ![n] = i]
    /\ UNCHANGED <<objects, locks, keys, job, told, verdict>>

(* What a thread does on its own, without waiting for another *)
Find(t) == SearchCache(t) \/ LoadIcon(t) \/ InsertIcon(t)
Make(t) == Construct(t) \/ FreeKey(t) \/ GenerateKey(t)
Use(t)  == \/ EncryptTest(t) \/ Encrypt(t)
           \/ DecryptSize(t) \/ Decrypt(t)
           \/ ToStringTest(t) \/ ToString(t)

Wait(t) == LockCache(t) \/ GetInstance(t) \/ LockPair(t)

Next ==
    \/ \E t \in Threads, n \in Names : AskIcon(t, n)
    \/ \E t \in Threads, op \in KeyOps : AskKey(t, op)
    \/ \E t \in Threads : Wait(t) \/ Find(t) \/ Make(t) \/ Use(t)
    \/ \E n \in Names : Install(n)
    \/ Restart

Spec == Init /\ [][Next]_vars

(* A thread that need not wait goes on.  Mutexes are not fair: nothing is
   assumed of a thread that waits. *)
FairSpec == Spec /\ \A t \in Threads : WF_vars(Find(t) \/ Make(t) \/ Use(t))

-----------------------------------------------------------------------------
(* Properties *)

TypeOK ==
    /\ theme \in [Names -> Icons]
    /\ cache \in [Names -> Icons \cup {None}]
    /\ built \in BOOLEAN
    /\ pair \in Generations \cup {None}
    /\ {cacheLock, builder, pairLock} \subseteq Threads \cup {None}
    /\ made \in 0..MaxKey
    /\ given \in [Generations -> {"never", "before", "now"}]
    /\ job \in [Threads -> Jobs \cup {None}]
    /\ verdict \in [Threads -> Verdicts \cup {None}]

(* The key pair is used, and made again, only once it is built: no thread
   passes getInstance while another is in the constructor, also after one
   that threw. *)
BuiltBeforeUse ==
    \A t \in Threads :
        job[t] # None /\ job[t].op \in KeyOps /\ job[t].pc \notin {"get", "construct"} =>
            built /\ builder = None

(* The map of the cache is searched and changed by one thread at a time,
   although the entries it returns are read outside. *)
OneInCache ==
    \A t, u \in Threads :
        job[t] # None /\ job[t].pc \in {"search", "load", "insert"} /\
        job[u] # None /\ job[u].pc \in {"search", "load", "insert"} => t = u

(* A token opens if the program holds its key until the call is over, and
   does not if the key was given up before the call began, by a restart or a
   reset, or if it is none.  So however many threads asked for the first key,
   what one seals any other opens, and decrypt, which reads the key twice and
   under no mutex, is wrong about no token that a reset does not overtake. *)
TokensOpen ==
    [][\A t \in Threads : verdict[t] = None /\ verdict'[t] # None =>
          /\ verdict'[t].good => job[t].valid
          /\ Held(job[t].block) => verdict'[t].good]_vars

(* Whoever gets a mutex, or builds the key pair, lets go of it again, also
   when it fails. *)
LocksReleased ==
    \A t \in Threads :
        /\ cacheLock = t ~> cacheLock # t
        /\ pairLock = t ~> pairLock # t
        /\ builder = t ~> builder # t

(* The file of an icon is decided once, and every thread is told the same
   until the program ends, however the theme changes and however many ask
   for it first; that there is no such icon is decided in the same way. *)
Book == INSTANCE WriteOnce WITH
            Threads <- Threads, Entries <- Names, Values <- Icons,
            None <- None, told <- told, book <- cache

DecidedOnce == Book!Spec
=============================================================================
