# Formal models of libudjathttpd (libudjat + CivetWeb)

TLA+ specifications of the HTTP module of Udjat (`src/src/module`,
`src/src/library`): what its parts do, step by step, and which properties that
gives; model-checked with TLC on small instances and, where noted, proved with
TLAPS for every instance.

Source paths below are relative to `src/src`.

## 1. The system

The module runs the CivetWeb server inside an Udjat application. CivetWeb owns
a pool of worker threads; each takes a request and calls the C function
registered for its path. The main thread builds and deletes the module, the
agents and the handlers applications add. As a client, the module also fetches
URLs for the rest of Udjat.

| Component | Source | State | Operations | Hard behaviour | Correct when | Modules |
|---|---|---|---|---|---|---|
| OAuth2 sign-in service | `module/oauth2/handler.cc`, `library/oauth2/*`, `library/os/linux/oauth2user.cc` | none in the server: blocks sealed with the key pair, held by browsers and clients | login page, authorize, signin, access_token, userinfo | several requests of one browser at once, answers lost or late, expiry, restart, PAM and passwd disagreeing | a person's data goes only to holders of a live sign-in of that person | `OAuth2` implements `SessionAuthority` |
| Key pair | `library/keypair.cc`, `handlers/pubkey.cc` | an RSA key made by the first thread that needs it | getInstance, encrypt, decrypt, to_string, reset | first use by several threads, a constructor that throws, a public reset without a lock, restarts | used only when built; a token opens while its key is held | `SharedObjects` |
| Icon cache | `library/icon.cc` | map of names to files | getInstance | a load that throws under the mutex, entries read outside it, negative entries | one answer per name and run | `SharedObjects` implements `WriteOnce` |
| Web answers and built-in handlers | `module/send.cc`, `module/connection.cc`, `module/handlers/*`, `module/custom.cc`, `library/exec.cc`, `library/response.cc` | the reply state of a connection; files on disk | icon, image, product, favicon, pubkey, root, custom; send of a response, a file, a directory | exceptions half-way, files that change between two looks | one whole answer per request, its body as long as announced, its status what the handler returns | `WebResponse` |
| Server and handler registry | `library/server.cc`, `library/handler.cc`, `module/init.cc` | default server, CivetWeb's table of handlers | build and delete servers and handlers, dispatch | requests while objects are built and deleted, several servers, keys taken twice | no deleted handler is reachable; handlers keep their key | `HandlerRegistry` |
| HTTP client | `module/worker/*.cc`, `module/protocol.cc` | a local file and its time | save, get, test | broken connections, cancellation, crash, two savers, the server changing meanwhile | the file is always whole; a 304 never keeps an old copy | `ProtocolWorker` implements `AtomicSave` |
| Request parsing | `module/request.cc`, `library/request.cc` | path, API version, posted values | construct, getProperty, for_each, address | boundaries of the path, values cut into pieces, a name in several places | no field is torn, lookups agree | `Requests` |
| Values | `library/value.cc` | a tree of objects on the heap | [], append, set, reset, get, for_each | a change of type deletes what others hold references to; order of array elements | nothing leaks or dangles; reads as written | `Values` implements `Document` |

Interactions: CivetWeb's threads call the handlers of `HandlerRegistry`; each
handler takes its request apart (`Requests`), fills a value (`Values`) and ends
in the writing of an answer (`WebResponse`); `/oauth2` is one built-in handler,
whose inner life is `OAuth2`; icons and the key pair are what all threads share
(`SharedObjects`). `ProtocolWorker` shares only the library with them. The
modules look at one thread's work from different sides and share no variable;
where one relies on another, the abstract specification is the link: `OAuth2`
takes for granted that there is one key per run of the program. `SharedObjects`
shows that this is so however many threads ask for the first one (`TokensOpen`),
unless an application calls `KeyPair::reset()`, which nothing in the repository
does; after a reset that no request overlaps, the tokens and sessions of before
are refused as they are after a restart.

## 2. The modules

### OAuth2 and SessionAuthority

`OAuth2` has a thread's request in `call[t]` and its answer, until it arrives,
in `reply[t]`; `cookie`, `code` and `bearer` are what agents hold. A block is a
record of the key generation that sealed it, its layout (a user block and a
request block differ in length, which is what `decrypt` tests) and its data:
type, expiration, uid, name, address. The type's low nibble is the address
family, as in the code. `ArriveUser` builds the user from the Authorization
property, the cookie or nothing (`User::set`). Each operation of the handler is
one action and ends in one answer; access_token is two, because it reads the
clock twice. `login` and `served` are history: when PAM accepted whom, and
whose data went out.

The environment: answers arrive in any order or never; a redirect from signin
goes to any agent, the client application; agents move between addresses and
drop cookies; the clock runs; the process restarts and loses key and requests.
The signature is perfect: no agent makes a block. Exceptions are one action,
`Throw`, possible for every request.

`SessionAuthority` is the promise, in three variables: data of u is handed out
only after a sign-in of u since the last start, at most a lifetime ago.

### SharedObjects and WriteOnce

A thread that wants an icon takes the cache's mutex, searches, loads what is
missing (which may throw; `lock_guard` releases the mutex), inserts and returns
a reference into the map. A thread that wants the key pair goes through the
guard of the local static object: it finds it, builds it (`Construct`, whose
`reset()` may throw, and then the next one tries) or waits. Every use of the key
is two readings of it: encrypt tests it and seals with it under a second mutex
(`EncryptTest`, `Encrypt`), decrypt asks its size and opens with it under none
(`DecryptSize`, `Decrypt`), and so does to_string (`ToStringTest`, `ToString`).
`reset()` is public and takes no mutex: any thread that has the object may free
the key (`FreeKey`) and put the next in its place or leave none (`GenerateKey`)
between any two of those readings. A thread that works with a key that is not
the one it read first (`Raced`) does what it would with either, or fails, or
ends the program: the key it uses may be freed memory. Two resets may free one
key twice, and decrypt without a key ends the program. Icons are installed and
removed meanwhile, and the program restarts. A block is the number of the key
that sealed it; `given` is history, whether blocks of a key are out and whether
it is still the one that is held.

`WriteOnce` knows no locks: a book whose entries are decided once, and everybody
is told what was decided. The refinement maps the icon cache to the book. (The
key pair is no such entry: `reset()` is there to decide it again.)

### WebResponse

`wire[t]` is what a client sees of the connection of t: the reply state CivetWeb
keeps (header started, sent), status, Content-Length, length of the body. Calls
made in the wrong state do what CivetWeb does: a second header is ignored, a
body is written. `job[t].pc` follows a handler through the places where a file
may change under it. `SendResponse` is `send()`; `Catch` the catch blocks; 500
stands for every code an exception maps to. Three ghosts say when an answer may
differ from what the property wants: `moved` (the file changed between header
and body), `twice` (a second answer follows, after a worker's favicon), and the
end `"late"` (the failure came after the status was chosen).

### HandlerRegistry

`instance` is the static default server, `table[s]` CivetWeb's table, `handler[h]`
where the object is in its life: `"base"` when only the `HTTP::Handler` part is
built (that constructor registers it), `"dying"` when only that part is left
(that destructor removes it). A key is a path without its trailing slash, as
`push_back` and `remove` make it. Matching of prefixes is reduced to: the entry
of the key, else the root. CivetWeb does not change an entry that is in use, and
`mg_stop` waits for the threads. Deadlock is not checked: an exception from a
destructor ends the program.

### ProtocolWorker and AtomicSave

A call goes through connecting, reading, renaming and utime. Version v of the
server's copy was modified at time v and the time is the newest version, so
`If-Modified-Since` is a comparison with the file's time. An answer may lack
Content-Length (`framed`: the length is then -1 and the loop reads nothing). What
follows the renaming (`SetTime`) ends in three ways: the time is set; it is not,
as there is no Last-Modified or utime fails, which is only logged; or the date is
malformed, its parsing throws, and the call fails although the file was replaced. `Crash` may strike between any two steps. `from`, `by`
and `settled` are history: since when a call runs, who put the file in place,
and whether that call has set its time since.

`AtomicSave` is what readers of the file see: one moment at which it becomes a
body the server had during the call, or none; "ok" is said only of a save that
did that and "kept" only of one that did not. "failed" says nothing: a save may
fail before or after its file was replaced.

### Requests

The two constructors as a machine: `ReadVersion` is one turn of the loop over
the digits after "/api/", `FieldFound` and `FieldGet` the callbacks CivetWeb
calls with the pieces of a form, which it cuts anywhere. Strings are sequences
of symbols: "/api/" is one, "%h" an escape. `form` is history: for each name,
all the text that came for it and where one piece ended and the next began;
`size` counts fields and pieces, only to bound them. The lookups (`GetProperty`, `ForEach`, `Address`,
`RequestPath`) are operators on the finished request. Its headers are a list of
names and values: `Address` reads X-Forwarded-For in it, up to the first comma,
and `ForEach` ends with all of it.

### Values and Document

`node` is the heap: an object has its type, its text and its map of keys to
objects. `Reset` deletes the children when the type changes, with all below
them (`Deleted`: the smallest set of objects that has the child and whatever an
object in it owns). `Get` reads recursively, through the children with standard
names (`Gotten`, a recursive function on the heap). Keys of an array are decimal numbers as strings; `Before` is the order of
strings, with digits in base `Base`. `path` and `order` are history: the keys
that lead to an object, and the elements in the order they were appended.
`Document` is the tree without heap or pointers; the refinement maps each
allocated object to its path.

## 3. What is checked

| Run | Instance | Shows |
|---|---|---|
| `oauth2_sessions` | 1 browser, 2 threads, 1 user, lifetime 1, clock to 2, 1 restart | types; sessions grounded and refused sign-ins signing out under two overlapping requests, lost and late answers and a restart; refinement of `SessionAuthority` |
| `oauth2_bearers` | 1 agent, 1 thread, addresses of 3 kinds, all flows; fairness | a live bearer token is honoured where it was made; every request gets an answer without an exception's help |
| `web_answers` | 2 threads, a file that is missing, a directory or of size 0..2, changing; fairness | framing, status, early failures; every handler ends with a complete header |
| `registry_lives` | 2 servers, 3 handlers, 2 threads, keys shared with each other and the built-in ones | nothing reaches a deleted handler; a key goes only to its next owner or with the server; only orphans terminate the program |
| `worker_files` | 2 savers, 3 versions, bodies of 2 pieces, crashes, answers with a malformed date, without a date or length; fairness | the file is whole; success means a whole body; a 304 keeps the current copy; calls end; refinement of `AtomicSave` |
| `shared_objects` | 2 threads, 1 icon, 3 keys, resets, restarts; fairness | the key pair used only once it is built; one thread in the cache; tokens open while their key is held; locks released; refinement of `WriteOnce` by the cache |
| `values_tree` | 4 objects, 2 standard names, base 3 | ownership, references, array order, reading; refinement of `Document` |
| `request_parsing` | 20 paths, 4 lists of headers, forms of up to 4 fields and pieces | path after the version, values of the form, agreement of the two lookups |
| `oauth2_address`, `oauth2_account`, `web_text`, `request_version` | the smallest of each | the four disagreements below |

Bounds. A lifetime of 1 with a clock to 2 has sign-ins that are live, at their
last tick and expired; one restart gives two keys to tell apart; two threads
give every overlap of two requests, and a third adds none, since a step reads at
most one browser's slots. `oauth2_bearers` has a lifetime of 0, so that blocks
are live for one tick and dead the next, and no restart. In the registry two
servers are needed for a deletion to reach the wrong one, three handlers for a
key to change hands twice. Sizes 0..2 hold the empty file, and two sizes to
confuse. Three versions let a save begin before a change and end after it,
twice, and two savers overlap in every order. Of two threads one
builds and one waits, or comes late; or one uses the key, and the other resets it
in between; three keys let it be replaced twice while a call runs. What a third
thread could add is covered by the theorems, which hold for any number. Objects
on the heap other than the root are interchangeable: which free one `new` takes
makes no difference, so `values_tree` uses their symmetry. Base 3
with four objects has arrays of up to three elements, up to which the order of
strings is that of numbers: the bound is where the code's property ends
(`ArraysInOrder` says so), and in base 10 that is the tenth element. Four fields
and pieces allow a field twice with a value in two pieces, an escape cut in two
included.

Fairness. Only steps a thread takes on its own are fair, weakly: a worker
thread that has a request goes on with it, and a client call goes on, because
CivetWeb's connections and reads time out. Nothing is assumed of agents, the
network, the clock, files or exceptions; in particular `CallsAnswered` does not
count on `Throw`. Waiting for a mutex or for the construction of the key pair is
not fair: `LocksReleased` says that owners let go, not that waiters get in.

### Disagreements found

Four have a run whose only property is what a comment or message says, and which
TLC refutes:

- `oauth2_address`: the comparison of addresses of user blocks tests type values
  user blocks never have, so "Rejecting user token by IPV4 mismatch" never
  happens.
- `oauth2_account`: a PAM user with no passwd entry gets an unset uid in the code.
- `web_text`: a response whose text fails keeps its success status.
- `request_version`: the API version is the negated number of the path.

Others show in the models, as an exception in a property or an action without
effect:

- client_credentials requests always fail, though `test/oauth2-client.py` reads
  an access token from the answer (`AuthorizeClient`);
- the implicit flow's access token is of the wrong layout (`SigninAccepted`, and
  the exception in `BearersHonoured`);
- a worker's favicon is followed by the default one (`twice`), and a directory
  that cannot be read is answered 200 (`"late"`);
- removing a handler removes whoever has its key, while `server.h:48` speaks of
  removing the handler (`RemoveHandler`, and the last exception in
  `HandlersKeepTheirKey`); with no CivetWeb context a handler is "added" to
  nothing (`MgStart`);
- a HEAD request answered with a response gets its body (`SendResponse`);
- a file keeps the time of its download, and may be taken for newer than it is,
  when the program stops before utime, the answer has no date, or two savers set
  the time in the wrong order (the exception in `KeptFileIsCurrent`); an answer
  without Content-Length saves an empty file, with success (`FileIsWhole`);
- a download whose date is malformed fails after the file was replaced (`SetTime`);
- `KeyPair::reset()` is public and unlocked: a block sealed or opened meanwhile may
  use a key that is freed (`Raced`, and `TokensOpen` speaks of keys that are held
  until the call is over);
- `for_each` passes the headers and `getProperty` does not find them
  (`OnlyInHeaders`, in `LookupsAgree`). `oauth2user.cc:149` asks getProperty for
  Authorization, which is a header; whether it finds it is up to libudjat, since
  the functions of this repository do not look there (`OAuth2` lets it);
- an array's eleventh element comes out third (`ArraysInOrder`);
- an escape that CivetWeb cuts is not unescaped, and a field posted twice is one
  value (`FormIsWhole`);
- an icon that was not found stays so until a restart (`DecidedOnce`).

## 4. What is proved

All theorems hold for every value of the constants that satisfies the named
assumptions of the modules. The assumptions about `None` say only that it is
none of the things it is told apart from.

- `TypeCorrect` (`OAuth2Proofs`): `Spec => []TypeOK`. The point is that user
  blocks and request blocks never change places.
- `SessionsAreGrounded` (`OAuth2SessionProofs`): if every PAM user has a passwd
  entry, `Spec => []SessionsGrounded`. `SessionsGrounded` is not inductive:
  authenticate() keeps the expiration of the block it started from, whoever that
  named, so the invariant `Inv` bounds the expiration of every block of the
  current key by a lifetime from now, named or not; it also says that no block
  has a key of the future, which is what makes a restart harmless, and that
  logins are in the past. The assumption is needed: without it TLC finds the
  violation of `oauth2_account`.
- `ImplementsAuthority` (`OAuth2SessionProofs`): under the same assumption
  every step of `OAuth2` is a step of `SessionAuthority` or leaves its variables
  alone; `Userinfo` is where `Inv` is used.
- `RefusedSigninsSignOut`: without that assumption.
- `BearersAreHonoured` (`OAuth2Proofs`): with that assumption again, an access
  token sent from where it was made is never refused while it lives. userinfo
  compares a token's type with the family of the address it comes from; the two
  are made together, by the constructor of the user, and every later operation
  copies both. The invariant `AllFit` says that they agree in every block,
  wherever it is and whichever key sealed it, and that no request block names
  nobody. Without the assumption a token may name an account that userinfo does
  not find.
- `NothingDangles`, `OrphansTerminate`, `RegistryTypes` (`HandlerRegistryProofs`):
  no table and no request names a deleted handler, whatever is built and deleted
  meanwhile. That is not inductive: a deletion removes the entry at the
  handler's key in the server that is the default one at that moment, and
  nothing local says that this is where the handler is. `Inv` does: every entry
  and every request of a handler is in the default server and at the handler's
  own key (`EntriesOwned`, `RequestsOwned`), and a server without a context has
  neither (`NothingWithoutContext`). It holds because the first server built
  stays the default one until it is deleted, taking its table with it; with a
  constructor that replaced the default server, TLC finds a dangling handler.
- `KeysAreKept`: the action property `HandlersKeepTheirKey`, from the types alone.
- `FilesAreWhole`, `SuccessesAreWhole`, `WorkerTypes` (`ProtocolWorkerProofs`):
  from an invariant on what a call has read by the step it is at: at the renaming
  it is all that was announced.
- `KeptFilesAreCurrent`: the invariant there also says that a settled file has
  the time of its own version, and that the call that put a file in place and
  has not yet set its time is the one that knows its version.
- `ImplementsAtomicSave`: the renaming is the step at which a save takes effect;
  `from` of the call bounds the version from below. After the renaming only "ok"
  and "failed" are left, before it only "kept" and "failed".
- `NobodyUsesHalfAKey`, `OneThreadInCache`, `HeldTokensOpen`, `SharedTypes`
  (`SharedObjectsProofs`): what a thread relies on at its step, and who else may be
  there (`JobSound`). A step of one thread keeps what the others rely on (`Keeps`); one lemma
  per action shows that and the rest. `TokensOpen` needs the order of the keys (`KeysSound`): a
  key is generated with a number no token ever had, and the only key of which
  blocks are out and held is the one in the object. A key once given up is never
  held again, so if the key of a block is held when decrypt ends, it was held when
  decrypt began and at both of its readings.
- `ImplementsWriteOnce`: a thread that gives an icon tells what is in the book, or
  decides it.
- `AnswersAreFramed`, `StatusesAreTrue`, `FailuresAreSeen`, `AnswerTypes`
  (`WebResponseProofs`): when a handler answers, nothing is on its wire, except the
  header of a file whose body is next, or a second answer (`WireSound`); and the
  length in that header is the file's, unless the file changed since it was
  looked at (`FileSound`). `StatusesAreTrue` holds of images and product files by
  exemption only: their handlers return 200 after mg_send_file's errors.

- `HeapInvariant`, and from it `ObjectsWellFormed`, `EveryObjectOwnedOnce`,
  `OnlyAChangeAboveDeletes` and `ValuesAreADocument` (`ValuesProofs`): that all
  but the root have one owner is not inductive, because a deletion takes away
  whatever is below a value, and pointers alone do not say that this is disjoint
  from the rest. `Heap` says it with paths: the path of an object is its owner's
  and the key it is kept under, no two objects have the same, and the owner of
  every object is alive. Then what a change of type deletes is exactly what has
  a longer path through the value (`GoneBelow`, `BelowGone`), and the map from
  paths to objects is a document.
- `OnlyEmptyReadsEmpty`: the recursive reading is shown to exist
  (`ReadingExists`: children have longer paths, and the heap is finite) and to
  be empty exactly if all it reaches is.
- `SmallArraysInOrder`: an array has the keys from 0 to its size, which is the
  order of strings as long as they have one digit.
- `RequestTypes`, `PathsAfterVersions`, `FormsAreWhole` (`RequestsProofs`): the
  invariant says that no slash has been passed (`PathRead`), and that a field's
  value is what its text unescapes to, unless an escape is cut (`FormRead`). The
  fact about data it rests on is `UnescapeConcat`: unescaping two pieces is
  unescaping the whole, for texts of any length. A piece "%" followed by a piece
  "h" is why the exception cannot go.
- `LookupsAgreeWithEnumeration`: from the types alone, with facts on the first
  of a name in a list and in two lists joined (`FirstConcat`, `NamedConcat`): what
  is enumerated is the posted values, the address and the query, which getProperty
  searches, followed by the headers, which it does not.

Induction. The library's induction theorems take an operator as a parameter,
which no installed prover can instantiate. Where a theorem needs induction over
data, it is stated of a set: the set of counterexamples, if it had a member,
would have a least one (`WFMin`, with the order of the naturals or the strict
subsets of a finite set), and the least one is shown not to be a counterexample.
That is how a recursive function is shown to have the value its equation gives
(`UnescapeIs`, `GottenValue`), which the definition alone does not say. Neither
`Values` nor `Requests` declares a RECURSIVE operator, and none of the folds of
the community modules is opened: what is proved about is written with functions,
least sets and minima.

Every invariant, action property and refinement of the runs that pass is stated
by a theorem. Only model-checked: liveness (`CallsAnswered`, `RequestsAnswered`,
`CallsEnd`, `LocksReleased`), which is out of the prover's reach, and the
disagreements, which are counterexamples.

## 5. Not modelled

- Pages and templates (`template.cc`, `index.cc`) and the text of a report
  (`report.cc`): formatting. The CSV layout is commented out.
- `handlers/report.cc` and `handlers/swagger.cc`: their registration is
  commented out.
- The choice of a MIME type, `cookie()` and `cached()`: a value from one header.
- Options, SSL and features in `init.cc`, and log lines.
- The Windows variants, the test programs, packaging and translations.
- RSA, base64, the C library, PAM's conversation, the formats of dates.

## 6. Plan

Done: all components above, and a theorem for every safety property. Left:

Progress without fairness: for each call of `ProtocolWorker` and each request of
`WebResponse`, a measure that every step of its thread lowers, as an action
property, checked and proved; what is left to TLC is then only that some step is
enabled.
