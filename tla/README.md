# Verification of Ayahesa

TLA+ modules, TLC runs and TLAPS proofs about the Ayahesa web framework
(`src/src`, `src/conf`), a C library of request handlers, configuration and
helpers that runs inside the worker processes of the Kore web server.

## The system

Kore starts a parent and several worker processes. Each loads the module and
calls `aya_init`, which reads `conf/framework.ini` and the environment into the
configuration tree and registers databases. A worker is one event loop: for each
connection it calls `aya_connect` and later `aya_disconnect`; for each complete
request it looks up the route in `conf/ayahesa.conf`, runs the authentication
the route names, then the page, and releases the request. A request that has its
turn runs to its end. So a request sees the process state that earlier requests
left, and concurrency is the interleaving of requests, connections, reloads and
shutdowns between turns, and of workers through what they share outside (the
database, the files).

| Component | State | Operations | What makes it correct | Module |
|---|---|---|---|---|
| Application tree, `core/tree.c` | slots, items, their memory | put, get, contains, remove, free, growth | no item lost or shared; last put wins; lent strings stay; removal exact | `TreeMap`, `AppTree` |
| Boot: `core/application.c`, `core/ini.c`, `core/database.c`, `aya_init` | configuration, parser position, environment, log, databases | load, each line, validate, open the log, each variable, bootstrap, release | the configuration is the one written; required items there; the boot ends | `Boot` |
| Worker: `core/ayahesa.c`, `middleware.c`, `route.c`, `core/util.c`, controllers | connections, queue, the request in turn, counters, failure count, status flag | connect, receive, disconnect, validate, each page, finish, the end of the process in a turn, stop, reload | one answer per request, unless it is one that ends the worker; guarded pages; sessions released; throttling; counters; progress | `Server`, `Worker` |
| Resource store: `controllers/resource.c`, `core/afile.c` | files | store, fetch | an upload is stored and fetched whole; what is kept never changes | `BlobStore`, `ResourceStore` |
| Login and tokens: `model/principal.c`, `core/crypt.c`, `core/jwt.c`, `controllers/endpoint_auth.c` | users table, tokens, configuration of each worker | authenticate, verify, reload | concurrent logins keep the secret that was chosen; a token has an owner, as long as names stay within the quotes of the query, and lives its time | `Session` |
| Identifiers: `vendor/quid/quid.c` | last reading, identifiers of it, per worker | `get_current_time` | no time twice | `QuidClock` |
| View engine: `core/view.c` | the page, the pass | template, include, comment, function, statement, user and predefined variables | a view of known macros is answered with what it means; every pass ends | `ViewEngine` |
| Base64url, keys, numbers, extensions, cookies: `core/base64url.c`, `core/compat.c`, `core/util.c`, `core/validator.c` | none | pure functions | equal to a reference, fit where they are written | `Text` |
| Chat: `controllers/endpoint_msg.c` | sockets, which are Kore's | join, message, leave | one broadcast each | handshake in `Worker` |
| Events, MIME, chat page, Argon2 | none, or third-party | | | not modelled |

What is hard here is state that outlives a request or a load: the counters, the
failure count, the status flag, the process environment that the boot itself
modifies, memory whose release each handler repeats by hand. Then what several
workers do at one time to one table, by one clock, with configurations that may
differ; and text that seven passes rewrite in turn. `PROJECT.json` lists each
such place under `hazards` with the properties that watch it.

## Modules

**`TreeMap`** is the abstract promise of a read-only tree: a map from keys to
entries, in which the first put of a key fixes its type, a put of another type
freezes the key, and only the release takes keys away.

**`AppTree`** is `core/tree.c`: `ptr` and `alloc_cnt` are the array and its
size, `heap` the items that are allocated, `borrowed` the strings `tree_get_str`
has handed out. `Put` is `tree_new_item` with any `tree_put_*`, `Remove` is
`tree_remove`, `Free` is `tree_free`; the readers are operators. A value is the
number of the put that stored it, so the newest is the greatest. `ImplementsMap`
is `TreeMap!Spec` under the mapping `map <- EntryOf`.

**`Boot`** follows `aya_init`. `phase` says which function is at work; `lineno`,
`section` and `prev_name` are the locals of `ini_parse_stream`; `cut` is the set
of variables into which `application_env` has written string ends, which stay
cut when the module is loaded again. `config` is the tree, taken as the map that
`AppTree` is proved to implement: each key is put with one type there. A value
is a short sequence of words; numbers are their numerals. `fopen` of the log may
fail. `ConfigAsWritten` compares the outcome of a first load of a file
without an error with a reading of the whole file at once (`FileSays`,
`SectionOf`, `NameOf`).

**`Worker`** is one worker. `cur` is the request in turn: `extra` is
`request->hdlr_extra`, `codes` what it was answered, `lost` memory no pointer
reaches any more. `AuthBasic` and `AuthJwt` are the middleware, one action per
page handler follows, and `Finish` is Kore's release of the request and, with
`http_keepalive_time 0`, of the connection. `Connect` and `Disconnect` call
`application_prelude` and `application_postproc`; `Reload` is an unload and a
load by `aya_init`. Kore's part (queueing, dispatch, closing, the answer 403 of
a failed header authentication) is modelled from how it is used and marked
external. Which header, body or argument a request has is an input, told apart
only as far as the code tells them apart. `config` has what the validators and pages
read of the configuration: whether there is an item `auth` and a `:` in it, a
domain, a storage; it may be another after a load. Some requests end the process
in their turn, since the code follows a pointer that is null for them (`Die`):
`Basic` or `Bearer` without credentials, credentials of which nothing can be
decoded (their length is whatever was there), an `auth` without a `:`, a report
for a client that does not tell its name (which stands for the remote address,
too) or without a domain, and the fetch of a file shorter than a header. All
connections end with it, and Kore starts another worker. `refused` and `strays` are history
variables; `strays` is the exact difference between the active counter and the
connections, which a websocket takes up and a reload down.

**`Server`** is the abstract promise of a worker: requests stand in one line, get
their turn in the order of arrival and exactly one answer, which is a refusal
for who comes to a guarded page without credentials; only a request for it tells
the parent to shut down. The turn of a request that is `Fatal` may end the worker
instead (`Fail`), and with it all that wait in the line; `Worker` says with
`MayEnd` which these are. `ImplementsServer` is `Server!Spec` under the mapping
in which the line is `queue` behind the request that has its turn, and the
answers are those of that request; validators, counters, memory and reloads are
not to be seen.

**`BlobStore`** is the abstract promise of the stored files: a name gets at most
one content, all at once, which never changes; some puts are lost, which may take
the name of another away with them, and no one can tell what is fetched under
the names of those.

**`ResourceStore`** is what several workers do in the storage directory: `files`
are the contents, as sequences of pieces, `op` the locals of `store_file` in
each worker. Each call to the system is an action and may fail: `Open`,
`ReadAndWrite`, `ReadError`, `Close`, `Unlink`. `afwrite` buffers, so a failed
close or the death of a worker (`Crash`) truncates what was written. `stored` is
a history of the uploads that were answered and of what failed. After a read
error the code unlinks the name that the client gave its file, relative to the
directory of the worker, below which the storage is: this may take away any path
there is, or none (`Unlink`); `unlinked` has the paths that are gone. Identifiers
are taken to be fresh. `Fetch` does not know of the buffer of another worker, since
a name is given out only with the answer. `ImplementsBlobs` is `BlobStore!Spec`
under the mapping in which a name shows the content of its file from the moment
that an upload without a failure is answered, until the name is unlinked; what
calls have failed for is a put that is lost.

**`QuidClock`** is `get_current_time`: `time_last` and `ids_this_tick` are its
statics in each worker, `now` counts the readings of the clock of the system,
which may be set back. Readings are `Resolution` units of time apart, 10 in the
code, and a call hands out the sum of the reading and the counter. The counter
goes up to `UIDS_PER_TICK`, 1024, so more than ten identifiers of one reading
run into those of the next; the history `crowded` says that this can have
happened. A call for which the counter is used up goes round until the clock
shows something else, so here it is not enabled.

**`Session`** extends `QuidClock` with what `jwt_authenticate` and `jwt_verify`
do in several workers. `password` is the column of the table, told apart by the
secret it verifies; `cfg` what each worker read of the configuration last; `op`
the locals of the request in turn of each worker. `Authenticate`, `Select`,
`Update`, `ReadTime` and `Stamp` are a login, cut where it queries the table or
reads the clock; `Verify`, `Signature` and `Admit` or `Refuse` a verification,
which reads the clock twice. `SetSecret` is the owner of the table. The code
prints the user's name into its query as it is. All names but one of the model
stay within the quotes, and the query is a lookup; `Quoted` does not, and
`SelectOther` lets its query change the table and answer with any row. `plain`
is the history that there was none, and `SecretKept` and `OnlyOwners` are about
runs of which it holds. A query may
fail, and a hash may not be made (`NoHash`, the text `(null)` in the table).
`owned`, `chosen`, `restored`, `overlapped`, `proper`, `born` and `backs` are
histories: what a user chose last, all that he chose, whose secret an overtaken
renewal wrote over, and so on.

**`ViewEngine`** is `http_view`. A page is a sequence of tokens, and each action
is one round of one of the seven passes, in their order. `Splice`, `SpliceFirst`
and `IsFirst` are the two functions of `util.c` and `kore_mem_find`. A macro
whose name is not found ends its pass and stays, cut; a function that is not
exported ends the worker, and so does the last pass for a request without an
agent or a worker without a domain (`present`). **`ViewMeaning`** says what the response should be:
`Meaning` and `Shown` read the view once from its beginning to its end. It is a
module of its own since `Expanded` is recursive and can only be evaluated.

**`Text`** has the pure functions as operators on sequences. Its state is one
input, which grows; each property says what the functions make of every input.
Shifts and masks are divisions and remainders, and base64url is compared with
the bits of the data taken six by six.

**`AppTreeProofs`**, **`SessionProofs`**, **`WorkerProofs`**,
**`ResourceStoreProofs`**, **`BootProofs`**, **`TextProofs`** and
**`ViewEngineProofs`** hold the theorems. `MCAppTree`, `MCBoot`, `MCWorker`,
`MCResourceStore`, `MCSession`, `MCViewEngine` and `MCText` give the instances
for TLC. Operators commented as seeded faults are wrong versions of the
definition that follows them, with which a property must fail.

## Runs

| Run | Question | Bounds |
|---|---|---|
| `config_tree` | the read-only tree keeps, orders, lends and implements the map | 2 keys, all 4 types, 4 puts into slots that come 2 at a time |
| `cache_tree` | the tree with removals | the same, 5 puts, so two growths with holes |
| `worker_pages` | every request of every route | 1 connection made twice, the shipped configuration and those that lack the credentials, the `:` in them, the domain or the storage, 1 reload |
| `worker_counters` | interleavings, counters, throttle, progress; the worker implements `Server` | 2 connections, 5 connects, 6 requests of which one ends the worker, throttle at 2 and 3, 1 reload |
| `boot_all` | the configuration as written (first load, no error), complete, with the database for logins; the boot ends | files of the four required lines (or three) with up to 2 of 13 others before or after, 7 environments, 1 reload with any other file |
| `resource_store` | uploads are stored and fetched whole until they are unlinked; the files implement `BlobStore` | 2 workers, 1 principal, 2 identifiers, uploads of up to 2 blocks of 2 contents |
| `session_all` | secrets stay, tokens are owned, distinct and live their time | 2 workers, 1 user and a name that leaves the quotes, 3 secrets, 1 change or such a query, after which a run is not followed, 2 tokens, 2 configurations, 2 ticks to a second, 3 readings, the clock set back once |
| `view_all` | a page shows what its view means; passes end | all views of up to 2 of 15 segments, alone or in a template; 5 assets, one flag, with and without a session and an agent |
| `boot_reload`, `resource_error`, `view_else` | each what a comment says, see below | one or two of the cases of the runs above |
| `text_all` | functions equal their references | bytes and characters up to 5, names up to 6, headers up to 8, sums of two numbers around minutes, hours and days |

The bounds are enough for the cases to meet: the tree fills, grows and has
duplicates of one key with several types; `SlowFrom` and `SlowerFrom` stand for
5 and 20, and five connects reach both; `Width` stands for 2^32 and is above all
connects, so a wrap can only come from below zero. Two connections are all that
a queue needs to have a request wait behind another. Turns of different requests
never overlap, so more connections add no new interleaving within a turn. A turn that ends the worker leaves nothing behind,
so one such request among the interleaved ones shows all that it does to
others. Two stores that overlap are all that can meet in the storage directory,
two identifiers let one upload take the name of another away, and two blocks
have a first, which brings the header, and a last; who asks is a part of the
path only, so one principal will do. One user is enough for the lookups of
`Session`, which touch no other row; what a query that is no lookup does to any
row it does to that one. A run is not followed beyond such a query
(`AsMeant` of `MCSession`): `SecretKept` and `OnlyOwners` do not speak of what
comes after, and `TokensDistinct` and `LivesItsTime` do not read the table; the
proofs go on. Of three secrets one is never chosen. Two workers are enough for what two queries of a login
let in between; 2 ticks to a second let an issue and both
readings of a verification fall into one second or into two. Two tokens never
make the clock `crowded` there, so that case rests on the proof. Two segments
let each kind of macro precede, follow or, through an include, contain each
other. Five bytes pass through a whole group of three and each rest; names up to
six leave room for a section, the dot and an extension of full length, which is
3 there (`EXT_MAX`, 8 in the code).

Deadlock is checked for the resource store only: a tree that is freed, a worker
that is stopped, a boot that is aborted, a page that is answered and an input of
full length have nothing left to do, and `Session` ends where its bounds do.

Fairness is weak fairness of the event loop (`Serve`), which takes the next
request as long as there is one, in the worker that takes the place of an ended
one, too; strong fairness of `Stop`, since the parent, once told, does it without
condition, but a worker hears of it between two turns only; and weak fairness of
the boot and of `http_view`, sequences of statements that are not interrupted.
With strong fairness `ShutdownHappens` does not depend on how many requests come
before the shutdown is heard of. A worker that ends in the turn of a request is
one of the ways in which `EventuallyServed` lets a wait end. Nothing is assumed
of clients. `Terminates` is about
assets that do not include themselves, as those in `src/assets`: one that did
would be put into the page without an end.

### Where code and comments disagree

Each is a run that violates one property.

- `boot_reload`: "Fetch config from environment" (`application.c:216`). The
  first load cuts the variables, so a later one skips them.
- `resource_error`: "Unlink on error" (`resource.c:80`). The name unlinked is
  the one the client gave its file, so the part that was written stays (and a
  file of the store that has that name goes).
- `view_else`: "Show the user only if there is authentication"
  (`assets/status.html:55`), with another row after `@else`. `process_statement`
  removes that row also when it is its turn (`view.c:304`).

Others are modelled as they are, and the properties say how far they go.

- A reload sets the active counter to 0 with connections open, whose ends then
  take it below zero (`ActiveCount` counts them in `strays`).
- `AYA_STORAGE=a_b` becomes `storage.b = a`, since the underscore that ends a
  section is searched in the value, too (`application.c:229`, `Misread`;
  `ConfigAsWritten` leaves such variables out).
- `ini_parse` stops at the first line in error (`ini.c:120`) though `ini.h:31`
  says that it does not, and the boot goes on (`ConfigAsWritten` is about files
  without one).
- A login renews the hash of a secret that it compared a query ago: one that was
  changed since is written over (`principal.c:73`, `restored`; `SecretKept`
  allows this case, with a secret that the user chose earlier, and no other).
- A hash that could not be made is printed as `(null)`, which locks the user out
  (`principal.c:71`; `SecretKept` allows `NoHash`).
- With a common database (`database.c:62`), the connection that logins ask for
  is not registered (`LoginHasDatabase` leaves this out).
- Identifiers may coincide after more than ten of one reading, or after the
  clock was set back (`Orderly`).
- A function that a view names and nobody exports ends the worker
  (`NoFunction`), as do the requests of `MayEnd`.
- A name that leaves the quotes of the first query of a login makes another query
  of it (`SelectOther`; `SecretKept` and `OnlyOwners` leave such runs out).
- Different sections and names may join to one key (`KeysWhole` is about the
  joined text), and `strtok` cuts the header that `http_get_cookie` looks at
  (`CookieAsSent` is about one call).

## Proofs

`AppTreeProofs` proves for all keys, growth steps and numbers of puts, with or
without the read-only flag, from the named assumptions of `AppTree`: `TypeOK`,
`NoItemLost`, `InPutOrder`, `NewestWins`, `BorrowedValid`, `OneAnswer`,
`RemoveIsExact`, and for read-only trees that `AppTree` implements `TreeMap`.

The inductive invariant `IInv` is `TypeOK`, `NoItemLost`, `InPutOrder`,
`BorrowedValid` and that `heap` holds only values of puts that have happened.
The last conjunct is what makes a new value fresh: without it a put could
coincide with an item already there and `NoItemLost` would not be inductive.
`NewestWins` and `OneAnswer` are consequences of it: the scan stops at the first
match of another type, and by `InPutOrder` the last slot assigned from is the
newest put. `LastOfSlots` (a nonempty set of slots has a greatest element) is
proved by well-founded induction on subsets of the slots. For the refinement,
`EntryIs` resolves the CHOOSE in `EntryOf`, and `PutUpdatesEntry` shows that a
put does to the entry of its key what `Updated` says and nothing to the others.

`SessionProofs` proves for all workers, users, secrets, configurations and
bounds, from the named assumptions of `QuidClock` and `Session`, first of the
clock alone `NeverTwice`. Its invariant `ClockInv` is `ClockTypeOK`,
`NeverTwice` and `TimesBelow`: in an orderly run every time handed out is at
most the sum of `time_last` and the counter, which is below the next reading.
Without it a new reading could meet an old sum. `ImplementsClock` shows that
`Session` implements `QuidClock`, which carries `NeverTwice` over.

The inductive invariant `IInv` of `Session` is `TypeOK`, `ClockInv`,
`SecretKept`, `OnlyOwners`, `TokensDistinct` and two more: `LoginInv`, that a
login past its query is a proper one, and that a renewal still to come holds the
secret its user chose, or one he chose earlier if a change has overtaken it, both
as long as `plain` holds; and `JtiGiven`, that
every identifier in a token was handed out by the clock of its worker, which
makes the next one new. `LivesItsTime` needs `TimeInv`, that a token, and a
login about to make one, carries the second of its birth, which is not in the
future while the clock is not set back; the rest is arithmetic of whole seconds
(`SecondBounds`, `SecondsGrow`).

`WorkerProofs` proves for all connections, requests, limits and counter widths
`TypeOK`, `AnsweredOnce`, `GuardedPage`, `SessionsReleased`, `Throttled`,
`ActiveCount`, `LossIsExact` and `StatusFlagHonest`. None of the first group is
inductive alone. `WorkerInv` adds `WaitingOnce`: a connection stands once in the
queue or has the turn, so that a disconnect takes one place only. `TurnAsMeant`
says what the turn has at each stage: nothing before the validator, a principal
and no answer before a guarded page, one answer and the loss that its path means
after it. `CountKept`: from the validator to the end of a turn
`basic_auth_count` runs ahead of the refusals, and agrees with them at any other
time. `CountsConnected` is `ActiveCount` without its condition that no turn is
under way. The counters wrap, so the proof needs some arithmetic of remainders
(`RemainderIsUnique`, `WrapsWhenever`). `SessionsReleased` is stated by a theorem
only: on the instances it follows from `LossIsExact`. That `Worker` implements
`Server` (`WorkerImplementsServer`) is proved on top of `WorkerInv`: a page is an
`Answer` (`PageIsAnswer`, since `Admitted` has the right header on a guarded
path), a validator refuses with an answer or lets through unseen
(`AuthBasicAnswers`, `AuthJwtAnswers`), taking a request moves nobody in the line
(`TakeKeepsLine`), the end of a turn is the `Release` (`FinishIsRelease`), and a
step that ends the worker comes from a request that `MayEnd` names under the
configuration there is, so it is a `Fail` (`DeathsAreNamed`, `EndedIsFail`).

`ResourceStoreProofs` proves for all workers, names and uploads `TypeOK`,
`StoredWhole` and `FetchedWhole`. `StoreInv` adds to them `OneWriter` and
`NamesUsed`, by which no other store reaches a file that is being written or is
answered for, and `Underway`: as long as no call has failed, a file is the
header and the blocks up to `pos`. `KeptWhole` is `StoredWhole` for the files
themselves, whether their names are still there or not, and `UnlinkedByFailure`
says what took the names that are not. `Headed` (a header stands nowhere but first)
is what lets `Fetch` skip it. That `ResourceStore` implements `BlobStore`
(`StoreImplementsBlobs`) is proved on top of `StoreInv`. By `BlobOf` a name
shows what its file holds. Opening is a
`Begin` (`OpenIsBegin`); a step in the middle of an upload, and one that fails,
cannot be seen (`WritingIsUnseen`); an end keeps or loses what was put
(`EndIsKeepOrLose`), also the end by a crash and by an unlink, which loses one
name more (`NamesAfter`); and a fetch gets all of a content
or misses (`FetchIsGetOrMiss`).

`BootProofs` proves for all files, environments and numbers of reloads `TypeOK`,
`Complete`, `ConfigAsWritten` and `LoginHasDatabase`. `PlaceKept` relates the
locals of `ini_parse_stream` to the file as a whole: `section` is the title of
the last header above, `prev_name` that of the last item above, if a line can
still continue it. `ConfigKept` says of each key what the lines and variables
read so far make of it, for keys of which no misread variable (`Clear`) can be
the source; `ConfigAsWritten` is `ConfigKept` once all are read. `CutOnce` ties
`cut` to the first load. `Filled` says from which phase on a required item is
there, and `Connected` is `LoginHasDatabase` for the configuration of the load
rather than the file.

`TextProofs` proves of strings and numbers of any size `KeysWhole`, `Fetchable`,
`CodedWhole`, `CookieAsSent` and `NumbersShown`. The state is only an input, so
all the work is in what the functions make of it. A string's last dot, of which
`strrchr` speaks, is the greatest of a set of places (`GreatestPlace`). For
base64url, a group of three bytes is decoded to what was encoded
(`GroupsSurvive`), the bits of a byte are picked apart once (`EightBits`,
`PartsOfByte`), which makes each character six bits of the data (`SixIsGroup`,
`EncodedInSixes`), and where the code of the last group is cut off there are
only zeros (`CutOffIsZero`), so that all of the data comes back (`DecodedIs`).
The lengths are arithmetic (`LengthsFit`). For numbers, the digits and their
value are recursive functions, so it is first proved that a recursion over what
gets smaller has a solution (`RecursionSolved`): solutions below each size exist
and agree with each other. Parent, base and step of the recursion are functions
there, not operators, which keeps the lemma first-order; the same holds of the
induction by size (`BySize`), which follows from the order of the naturals being
well-founded. With both, `DigitsAre` and `ValuesAre` say what the two functions
are, and `DigitsShow`, by induction, that the digits of a number make it. For
cookies, every place of a well-formed header that is no separator belongs to one
cookie (`CookieAt`, `OneCookie`), and the tokens that count as keys are the
names (`NamesAreOdd`, by induction over the places), so that the first key of a
name is that of its first cookie (`FirstCookie`).

`ViewEngineProofs` proves for all views, assets and values `TypeOK`: however
replacements meet, a page stays one of whole tokens and cut macros. The
statement is the hard case: it takes out what is between the first `@else` and
the first `@endif` of the page, and the type rests on an `@endif` being left
(`EndifStays`). `VariablesReplaced` says that a response has no predefined name
left, nor, for a session, the variable that `process_user_vars` would take next;
`PassesGoForward`, that with each round of four passes there is less of the page
behind the next macro, which is why they end. Of comments this needs that the
first one is closed after it is opened; a page with its marks in the other order
only gets longer. Statements are left out, since the first `@else` may belong to
another statement, and includes, which end only if assets do not include
themselves.

The assumptions are named and stand where the constants are declared. They say
that constants are of their kind and `NULL`, `NONE` and marks like `HEADER` are
none of the data. The others are the code's: the limits of the throttle are in
order (`ThrottleAssumption`), a counter is wider than the connections made
(`WidthAssumption`), the words a boot puts in are words (`WordsAssumption`), a
value has no macro in it (`TextsAssumption`), bytes are below 256 and what is
shown as a number is not negative before its sign is set (`BytesAssumption`,
`NumbersAssumption`). TLC evaluates each of them on the
instances.

Only model-checked: `EventuallyServed`, `ShutdownHappens`, `BootEnds` and
`Terminates`, since the prover handles neither fairness nor ENABLED; `Rendered`,
whose reference reading of a view is a RECURSIVE operator, which the prover
cannot reason about; and the runs that find a violation.

## Not modelled, and the plan

Texts of pages, headers and logs, connection strings, sizes of the parser's
buffers, and memory outside the tree and `request->hdlr_extra` are left out. So
are the arguments of functions in views, the JSON of requests and tokens, the
node, random part and encryption of identifiers, and HMAC, which is taken to be
perfect. Each callback of the chat makes one broadcast by Kore and has no state;
`fire` walks a constant table whose one trigger writes to the log. Argon2 is
vendored, the chat page a demo.

`put_resource` draws identifiers from the same clock as logins; `QuidClock`
covers any calls, `ResourceStore` takes fresh identifiers from it as given.

Next: that `Boot` implements a configuration that is loaded in one step;
progress of the statement pass on pages whose statements are well nested.
