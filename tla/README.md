# A TLA+ model of ownPastebin

ownPastebin is a paste service: a Go HTTP server, one of three storage backends
(SQLite, PostgreSQL, Redis), a small browser client. This directory holds the
TLA+ modules that model it, the TLC configurations that check them on small
instances, and theorems checked by TLAPS. Paths below are relative to the
repository.

* [Inventory](#inventory) · [Modules](#modules) · [Runs](#runs) · [Fairness](#fairness)
* [Proofs](#proofs) · [Disagreements found](#disagreements-found) · [Not modelled](#not-modelled)

## Inventory

| component | state it keeps | operations | talks to | what makes it correct |
|---|---|---|---|---|
| Paste handlers, `internal/routes.go` | `uploadSem`; the locals of each request | `handleCreatePaste`, `handleView`, `handleRaw`, `handleDownload`, `handleDelete`, `fetchPaste`, `decryptIfNeeded` | storage (calls that may fail), crypto, settings | a burn paste is read once; a slot never leaks; the answer says what was stored; protected pastes are not deleted |
| SQL backends, `internal/storage.go:100-814` | table `pastes`; `stop`, `wg`, `closeOnce` | `Save`, `PeekMeta`, `Get`, `Delete`, `GetAndDelete`, `cleanupLoop`, `vacuumDB`, `Close` | the handlers, their own cleanup goroutine | an id is never overwritten; expired rows are neither served nor kept; Close waits for the loop |
| Redis backend, `internal/storage.go:820-1112` | hash `paste:<id>` with a TTL | the same interface, in one or two MULTI pipelines | the handlers, Redis' own expiry | a reader never sees half a paste; expiry is set with the content |
| Backend selection, `newStorage` | the `Storage` in use | one decision at start-up | the three backends | the pastes written before are found again |
| Settings, `internal/config.go` | `Settings`, constant while the process runs | `loadSettings`, `parseTime`, `parseSize`, `parseExpiryTimes`, `extractPathPrefix`, `resolveTTL` | everything | limits mean what the operator wrote |
| Rate limiter, `internal/middleware.go` | map of token buckets with last-seen times | `get`, `Allow`, `cleanupLoop`, `Close` | every request | no client gets more than rate and burst; the map stays bounded |
| Process, `main.go` | wiring; no graceful shutdown | `run`, restart | all of the above | a crash loses requests, not pastes |
| Zombie reaper, `internal/reap_zombies_unix.go` | channel of one signal | SIGCHLD handler, `Wait4` loop | the kernel | every dead child is reaped |
| Plugin manager, `plugins/` | import lists, read-only after start | `BuildFor` | `handleView` | imports without duplicates, in order |
| Client: language and menus, `web/static/js/custom.js:68-98, 211-377, 618-648, 757-807` | `currentTranslations`, `localStorage.language`, `state`, menu labels | `getBrowserLanguage`, `loadLanguage`, `updateDropdownLabels`, clicks in the menus | static files, localStorage | one language at a time; labels say what will be sent; a choice is kept |
| Client: sending and deleting, `custom.js:809-1029` | `sendInFlight`, `deleteInFlight`, the form, the browser's navigation | `handleSend`, `doSend`, `resetSendBtn`, `errorMsgForStatus`, the deletion dialogue | the HTTP API | one click, one paste; what is sent is what was entered; a message that cannot know what became of its request is one of four that are named |
| Client: reading, `custom.js:100-209, 405-459, 565-607, 652-755, 870-908, 1031-1090` | the code block or diagram, selector, hash, script tags, copy button | `aesEncrypt`, `aesDecrypt`, `init_plugins`, `loadMermaidThenRender`, `normalizeLineHash`, the listeners | Prism, Mermaid, Web Crypto | the right password opens a paste that is in a code block, once; late scripts undo nothing |
| Client: theme, drop-downs, password strength, `custom.js:461-563` | classes, `localStorage` | clicks, key presses | – | appearance |
| Highlighter, `web/static/js/prism.js` | – | third-party, minified | – | – |
| Crypto, `internal/crypto.go` | the key | `Encrypt`, `Decrypt` | handlers | AES-GCM (Go library) |
| Logger, API description, pages, packaging | – | output | – | presentation only |

What is hard to test here. On the server every handler makes two or three
storage calls and anything may run between them; the expiry is judged by clocks
read at different moments; storage calls fail, in PostgreSQL possibly after the
commit; the process may die between any two steps. In the browser a click, an
answer, a timer and a late script come in any order, an answer may be lost after
the server has acted, and the user may leave the page, or come back to it, while
a request is under way. `PROJECT.json` lists each such hazard at its line with
the properties that cover it.

## Modules

| module | models | lines of code it stands for |
|---|---|---|
| `Ttl` | lifetime arithmetic as operators | `config.go:307-318`, `routes.go:223-232`, `storage.go:319-324` |
| `Lifetime` | one paste, the clock, the operator's limits, at a parametric integer width | the same, with the rounding of `expire_at` |
| `SqlPastebin` | all paste handlers over SQLite or PostgreSQL, cleanup, clock, restart | `routes.go:154-435`, `storage.go:318-442, 566-579, 657-808` |
| `RedisPastebin` | the same handlers over Redis (extends `SqlPastebin`, replaces its storage calls) | `storage.go:931-1070` |
| `PasteStore` | what the handlers promise with any backend: a paste is saved once, goes once, and one that is to be burned goes with its only reader | abstract |
| `RateLimiter` | the map of token buckets, its eviction, the lookup and the later `Allow` | `middleware.go:75-180, 238-250`, `main.go:49-56` |
| `TokenBuckets` | what `RateLimiter` promises: one bucket per key, never thrown away | abstract |
| `Translations` | language loads with their fall-back, the saved choice, the option menus, from page to page | `custom.js:68-98, 211-377, 618-648, 757-807` |
| `PasteTab` | a tab: sending, deleting, the network, messages, navigation | `custom.js:52-66, 809-868, 910-1029`; the answers of `routes.go:154-282, 382-406` |
| `OneRequest` | what an in-flight flag promises | abstract, from `custom.js:820, 912` |
| `Envelope` | the bytes of an encrypted paste: built, encoded, cut up again | `custom.js:100-209` |
| `PasteView` | the page of one paste (extends `Envelope`) | `custom.js:405-459, 565-607, 652-755, 870-908, 1031-1090` |
| `MCLifetime`, `MCSqlPastebin`, `MCRedisPastebin`, `MCRateLimiter`, `MCTranslations`, `MCPasteTab`, `MCPasteView` | constants for TLC | – |
| `Lifetime_proofs`, `SqlPastebin_proofs`, `SqlAnswers_proofs`, `RedisPastebin_proofs`, `RateLimiter_proofs`, `Translations_proofs`, `PasteTab_proofs`, `PasteView_proofs` | theorems | – |

### SqlPastebin

State and code:

| variable | in the code |
|---|---|
| `rows` | table `pastes`, indexed by its primary key `id` |
| `now` | `time.Now()` and `NOW()`, whole seconds |
| `cfg`, `restarts` | the `Settings` of the running process (protection on or off, key) |
| `slots` | `len(uploadSem)` |
| `pc`, `loc` | where the goroutine of each request is, and its locals: parsed form, id, the row a SELECT returned, the clock value handed to a statement, retry counter |
| `got`, `ans` | the paste `fetchPaste` returned, the status code |
| `retired`, `saves`, `wit` | history, read by no action except `Drawable` (`retired`, when `Reuse` is off): ids whose paste has left, what each POST stored, what was under the id when a client's request arrived |

One SQL statement is one step; everything a handler does between two statements
without touching shared state is folded into the step before or after it. So
`PeekMeta` of SQLite is a SELECT (`PeekMeta`), then the clock is read and, if the
row has expired, a DELETE by id follows (`LazyDelete`); other requests may run
in between, as they may in the code. PostgreSQL filters by `NOW()` inside the
statement (`Select`), so there `Lapsed` is never true. `GetAndDelete` of SQLite
takes the clock as a parameter computed before the statement (`TakeStamp`).

A paste's content is represented by the POST that sent it; the column
`encrypted` and the key it was encrypted under are one field `key`; `lang` and
`e2e_encrypted` are carried along by the code and never looked at, so they are
left out. `Faults` lets every storage call, the encryption, the id generator
and the reading of the body fail; with PostgreSQL a failing INSERT or DELETE may
have been committed. `Reuse` says whether an id whose paste has gone may be
drawn again: `gonanoid` does not exclude it, with the default length of 20 it
is improbable, and the two settings separate what holds regardless of luck from
what does not.

`Restart` may come at any moment: requests in flight get no answer (`"lost"`),
slots are back at zero, rows stay, and the new process may have other settings.

### RedisPastebin

The module extends `SqlPastebin` and keeps the handlers' own steps
(`CreateArrive`, `CreateGate`, `FetchDecide`, `Decrypt`, `DeleteDecide`, ...)
while every storage call is the Redis one. A paste is a hash; `fields` says which
of its two groups of fields have been written, and `rows[s]` is how the hash
reads, a missing flag as 0 and the key's TTL as `expire`. `Gate` is the first
pipeline of `Save` (HSETNX on `content`), `Fill` the second (HSET of the flags
and EXPIRE); between them any request may read, delete or try to save the hash,
the pipeline may fail (`FillFails`, before or after it took effect) and the
process may die. `RedisTick` removes a key when its time has come. `Guess` says
whether clients may ask for ids nobody has announced with a 201.

### PasteStore

`Promise` in `SqlPastebin` instantiates it: the paste of a POST is kept from the step
that stores it (the INSERT, or Redis' second pipeline) while its content is in the table,
and gone from then on (`Status`); `readers` are the requests whose `fetchPaste`
returned it (`ReadersOf`), `burning` the pastes stored with the flag. Most steps of
the handlers stutter; `TakeRow` and `TakeHash` are `Burn` for a burn paste that is
returned and `Vanish` when the reply is lost; expiry, cleanup and DELETE are `Vanish`; a
paste on the `Get` path is `Read` when it is returned, at which time it may have gone.

### RateLimiter

`entries` is the map (its mutex makes `get` and a sweep one step each), `bucket`
the `rate.Limiter` objects, named by `Lims`: a name may be allocated again when
nothing refers to the object, so `None` in the map and a request that still
holds the old object are told apart. `request[c]` is what a connection's request
carries from `get` to `Allow`; anything may run in between. Tokens are counted in
halves because the rate is N/2 a second. The header `X-Forwarded-For` of a
connection is fixed, and `realIP` tells whether it is used as the key.

`Ideal` instantiates `TokenBuckets` with the level a request would find: full
when the key has no entry, the refilled bucket otherwise. Under that mapping
`Get` and `Sweep` are stuttering steps, `Allow` is `Ask` and `Tick` is `Second`, so
`LikeIdeal` says that nobody can tell that entries are evicted. It needs an
entry to be idle long enough for its bucket to fill up: the assumption
`Refilled`, which the code's 300 seconds meet for every setting (N tokens at N/2
a second take 2 seconds), as long as a request is not held up between `get` and
`Allow`, where the code does nothing at all, for `MaxStall` = 298 seconds.

### Lifetime

Time and durations are integers of a signed type with range `-Half .. Half-1`
(int64 nanoseconds in the code) and `Second` ticks in a second (10^9). `Upload`
is the path from `?ttl=` to the column: multiplication with wrap-around,
`resolveTTL`, addition to the clock, rounding down to a second.

### Translations

| variable | in the code |
|---|---|
| `browser`, `saved`, `full` | `navigator.languages`, `localStorage.language`, whether `setItem` throws |
| `outage` | the language files that may fail to load, fixed for a behaviour |
| `loads` | the calls of `loadLanguage` waiting for `fetch` or `json()`, each with its language |
| `page` | `currentTranslations`, and the language of the texts, the flag and `<html lang>` on display |
| `state`, `labels` | `state`, and the texts on the three menu buttons |
| `wanted`, `disturbed` | history: the language asked for last; whether a load failed, was overtaken or was cut off by a new page |

A load changes nothing until its `json()` has settled and from there to the end of
the `try` block there is no `await`: it is one step, `Translate`, in which a full
storage makes `setItem` throw halfway (texts are translated, the flag is not) and
the `catch` asks for English. `LoadFails` is a failed fetch. `Open` is another
page of the site: the script starts afresh and reads `localStorage`. A
menu's option is a record of its text (a number and a unit) and its seconds,
`formatExpiry` picks the longest unit that fits and floors.

### PasteTab

One tab, and as much of the server as it takes to tell whether a message is
true. A page is `new` (two send buttons) or `view` (the deletion dialogue). A
request is a record that goes from `sealing` (awaiting `aesEncrypt`) to `sent` and
`answered`; it is `live` while the page that sent it is open. `ServerPost` and
`ServerDelete` answer as `routes.go` may, including a 500 after the INSERT or
DELETE took effect. `NetworkError` is the `catch`: the request got lost, or the
server is still at it, or it is done and only `r.json()` failed. `Refused`,
`Succeeds` and `NetworkError` set `nav`, the flash message the page leaves for;
`Leave` follows it, and until then every button can be clicked. `Visit` is a user
who goes elsewhere at any moment, `Back` the back/forward cache: a page that comes
back with its script as it was left. `entered` is the form at the click, carried
along to say what a paste should be; `options` are the menus as written into the
URI then. `MisreadOptions` are those whose ttl the server answers with 400 "invalid ttl": an
entry of `PASTEBIN_EXPIRY_TIMES` such as `5 min:+300`, whose `+` the query string turns
into a blank. `hung` and `awaiting` are history, and so is all of a flash message but its
kind. The page of a protected paste has a deletion dialogue but no button that opens it
(`index.html:49-52`); in the model it opens on every page of a paste, so that a 403 is met.

### Envelope and PasteView

`Envelope` has bytes as tokens that say where they come from; salt, iv, ciphertext
and tag are concatenated, `uint8ToBase64` goes through them in chunks, and
`aesDecrypt` cuts the result up by lengths. AES-GCM opens what has not been
changed with the key and iv it was made with; deriving a key is injective.

`PasteView` keeps the code block (its text, its class, the language it is
highlighted for), the Mermaid div that may have taken its place, the scripts under
way, the decryptions under way (each with the cipher text as read at the click,
before the `await`), the hash, and the copy button with its timers. The page's
`hashchange` listener is registered before Prism's, so `HashChange` runs
both in that order. `Select` and `MermaidLoads` may come while a decryption is
waiting. `init_plugins` calls itself, because the Prism plugin names
`"init_plugins"` (`plugins/prism.go:28-30`) in the list it walks; the stack
overflow ends all calls or is caught in the innermost, both are allowed.

## Runs

| run | instance | what it shows |
|---|---|---|
| `read` | SQLite, protection on, 1 POST (burn or not, protected or not, with and without expiry), 2 readers, 1 DELETE, faults, clock 0..2 | `KeepsPromise` (implements `PasteStore`), `ServedWasLive`, `NotFoundJustified`, `JustifiedRemoval`, `ProtectedOutlives` |
| `upload` | PostgreSQL, 2 POSTs for 1 slot and 2 ids, 1 reader, 1 DELETE, every rejection, encryption, faults with lost replies, 1 restart, clock 0..1 | `BurnInv` (the invariant of the proof, with `TypeOK`), `SlotsExact`, `AnswerMatchesStore` |
| `redis` | Redis, 2 POSTs and 2 ids, 2 readers, 1 DELETE, faults, 1 restart, ids known from their 201 | `RedisTypeOK`, `BurnOnce`, `HandedAsSent`, `AnnouncedStays`, `KeepsPromise` |
| `live` | SQLite under `FairSpec`, protection on, 2 POSTs for 1 slot (one paste to burn, one protected, both expiring), 1 reader, 1 DELETE, faults, 1 restart, 1 id that may be drawn again, clock 0..2, no symmetry, a view without history | `Answered`, `ExpiredGoes` |
| `range` | every `ttl` of 0..31 and none, limits none, 8 and 20 ticks, 8-bit integers, clock to 140 | `Capped`, `Honoured` |
| `limiter` | 3 connections of 2 hosts through a trusted proxy, 2 of one host and so of one key, 2 uploads in parallel (burst 2, 1 a second), `Ttl` 3, `MaxStall` 1, clock 0..5 | `LimiterInv` (an inductive invariant), `PerHost`, `LikeIdeal` |
| `language` | a browser set to `de-CH`, one set to a language without a translation, then German, then English; 3 languages, files that all load, lack one or all fail, a storage that may be full, 2 loads at once, 2 pages, the built-in menu's `never`, `1 month` and `1 year` | `TranslationsTypeOK`, `OneLanguage`, `LabelsTell`, `ChoiceKept`, `LoadsEnd`, `Translated` |
| `tab` | with and without `crypto.subtle`, 4 forms (empty; only a password, with a ttl the server cannot read; a text, protected; a text and a password), 2 requests at once, 1 paste id, 1 unasked visit, the back button | `PasteTabTypeOK`, `SendFlagExact`, `DeleteFlagExact`, `SentAsEntered`, `FlashTells`, `OnePost`, `OneDelete`, `Told` |
| `view` | an encrypted, an encrypted empty, a clear and an encrypted Mermaid paste, right and wrong password, 2 decryptions and 2 Mermaid scripts under way, 3 languages, all line links, 2 copy timers | `PasteViewTypeOK`, `HighlightedForClass`, `LinesFollowHash`, `RightPasswordOpens`, `NeverRelocked` |
| `wrap`, `ports`, `unlock` | the smallest instance that shows it | a statement of the documentation that the code does not meet, see below |

Bounds. `MaxNow` stops the clock: 2 is enough for a paste of lifetime 1 to be
live, at its expiry (`now = expire`, where `>=`, `>` and `<` differ) and past it.
`redis` needs a clock only so that expiry can interfere, 1 suffices. `MaxRestarts`
is 1: a restart forgets everything but the table, so a second one starts from a
state the first one reaches. Two readers are needed to read a burn paste twice
and a third adds nothing to a pairwise property; one DELETE is enough to come
between two statements of a reader. `read` has one POST and one id: with `Reuse`
off a second paste under the id cannot exist, and requests for different ids
share no row; `redis` and `upload` have two of each. `upload` has a POST more than
slots, and as many ids as POSTs, so a refusal for want of a slot, a conflict and a
success after a conflict all occur; with the burn default on, a form without a
parameter burns. In `Lifetime` a second has four ticks so that an upload can
fall anywhere inside it, and the clock outlives the longest lifetime of the run.

In `limiter` an entry can be evicted at 4 and 5, its key be asked again
and find a full bucket, and 2 seconds refill a bucket, so a request comes to an
empty, a partly filled and a full one. Three connections give a key with two
requests in flight beside another key; two limiter objects suffice as long as
the map and the requests never hold more than one per key, which `LimiterInv`
says.

In the client's runs two of everything that can overlap are enough: the
properties relate one load, request, decryption, script or timer to another one.
In `tab` the second slot is also what an orphaned request needs beside a live one,
and one id suffices because a page shows one paste; a POST for which no id is left
can still be refused. `MaxVisits` 1 bounds only unasked visits: the navigation
after a message is never bounded, so a tab sends any number of requests. In
`Envelope` salt and iv have two bytes and a chunk three, so that a piece ends
inside a chunk, a chunk inside a piece, and the last chunk is short.

Requests to the server are finite in number and answered once, so every behaviour of
the server's modules ends in a state with nothing left to do: their configurations
say `CHECK_DEADLOCK FALSE`, and that nothing gets stuck on the way there is
`Answered`. `tab` and `language` check deadlock: a user can always do something. Symmetry over POSTs,
readers and ids is used in every run of `SqlPastebin` and `RedisPastebin` but
`live`, over limiter objects in `limiter` and over decryptions in `view`; no
definition tells one member of these sets from another. `live` has no symmetry, which
would be unsound for liveness, but a `VIEW`: states that differ in history alone
(`saves`, `wit`, `ans`, `retired`, a paste already handed out) are one. While `Reuse`
is on no action reads these, and every step changes something else, so neither
property nor the fairness can tell such states apart.

Each property has a mutant in `PROJECT.json`: an operator such as `LapsedLate`
(`>` for `>=`), `TakeRowKeeps` (a read that does not delete) or
`ReleaseOnSuccess` (a slot given back on success only), defined beside the
operator it replaces, under which TLC finds the property violated.

## Fairness

`FairSpec` assumes weak fairness of the steps of each started request (a
goroutine that can run is scheduled by the Go runtime, and the database answers
each statement, if with an error) and of `Cleanup`
(the ticker of `cleanupLoop` fires every hour for as long as the process runs).
Nothing is assumed of clients, of the clock or of restarts. `Reuse` is on
in `live`, so a POST always has an id to draw. The calls of a request may fail there at
any time; the DELETE of the cleanup never does: one that failed each time for ever would
indeed keep expired pastes.

The client's two fair specifications assume what a browser does. `Translations`:
a fetch of a language file is answered or given up (weak fairness of
`Translate(s) \/ LoadFails(s)`, for each load; which of the two is open). `PasteTab`:
the same of a request the page waits for, with the encryption before it (`Settle`),
and the browser follows `window.location.href` (`Leave`). Nothing is assumed of
clicks, of typing or of the server. `Told` has an exception for a rejected
encryption, which the code really leaves without a message (see below), and for a
user who goes elsewhere. `view` checks safety only.

## Proofs

TLAPS checks every theorem to its leaves, for every value of the constants that
satisfies the modules' assumptions (`Disjoint`, `Parameters`, `Absent`; `Widths`,
`Inputs`; `Addresses`, `Bounds`, `Refilled`, `NotARecord`; `Languages`, `Outaged`,
`Settings`, `Menu`; `Fields`, `Absent`; `Pastes`, `Bounds`, `Lengths`). `Pastes` says that
a text has a length and is not `Null`, the mark of a failed decryption; `Lengths`
that salt, iv and chunk are not empty.

| theorem | states | assumes besides |
|---|---|---|
| `Typing` | `Spec => []TypeOK` (SqlPastebin) | – |
| `BurnInOnePlace`, `BurnedOnce` | `Spec => []BurnInv`, `Spec => []BurnOnce` | `~Reuse` |
| `SlotsCounted` | `Spec => []SlotsExact` | `IsFiniteSet(Creators)` |
| `AnswersTrue` | `Spec => []AnswerMatchesStore` (SqlPastebin) | – |
| `NoPasteMissed` | `Spec => NotFoundJustified` | – |
| `NoneServedLate` | `Spec => ServedWasLive` | `Backend` is SQLite or PostgreSQL |
| `RemovalJustified` | `Spec => JustifiedRemoval` | `~Reuse`, SQLite |
| `ProtectionHolds` | `Spec => ProtectedOutlives` | `~Reuse`, SQLite or PostgreSQL, protection on in every configuration |
| `PromiseKept` | `Spec => KeepsPromise`: it implements `PasteStore` | `~Reuse`, SQLite or PostgreSQL |
| `FewSteps` | `Spec => []FewLeft /\ [][Nearer]_vars`: at most ten steps to an answer, each nearer | – |
| `RedisTyping` | `RedisSpec => []RedisTypeOK` | – |
| `RedisBurnedOnce` | `RedisSpec => []BurnOnce` | `~Reuse`, `~Guess` |
| `RedisHandedAsSent` | `RedisSpec => []HandedAsSent` | `~Reuse`, `~Guess` |
| `RedisAnnouncedStays` | `RedisSpec => []AnnouncedStays` | `~Reuse`, `~Guess` |
| `RedisPromiseKept` | `RedisSpec => KeepsPromise` | `~Reuse`, `~Guess` |
| `RedisSlotsCounted` | `RedisSpec => []SlotsExact` | `IsFiniteSet(Creators)` |
| `RedisAnswersTrue` | `RedisSpec => []AnswerMatchesStore` | – |
| `RedisNoneServedLate` | `RedisSpec => ServedWasLive` | – |
| `RedisNoPasteMissed` | `RedisSpec => NotFoundJustified` | `~Reuse`, `~Guess` |
| `RedisFewSteps` | `RedisSpec => []FewLeft /\ [][RedisNearer]_redisVars` | – |
| `LimiterSafe` | `Spec => []LimiterInv` (RateLimiter) | – |
| `LimiterIsIdeal` | `Spec => LikeIdeal`: it implements `TokenBuckets` | – |
| `HostsLimited` | `Spec => []PerHost` | `KeysAreHosts` |
| `AlwaysCapped` | `Spec => []Capped` (Lifetime) | `NoOverflow` |
| `AlwaysHonoured` | `Spec => []Honoured` (Lifetime) | `NoOverflow` |
| `Typing` | `Spec => []TranslationsTypeOK` | – |
| `NeverMixed` | `Spec => []OneLanguage` (Translations) | – |
| `LabelsTruthful` | `Spec => []LabelsTell` (Translations) | `WholeUnits` |
| `ChoiceHonoured` | `Spec => []ChoiceKept` (Translations) | – |
| `Typing` | `Spec => []PasteTabTypeOK` | – |
| `SendGuarded`, `DeleteGuarded` | `Spec => []SendFlagExact`, `Spec => []DeleteFlagExact` (PasteTab) | – |
| `OnlyOnePost`, `OnlyOneDelete` | `Spec => OnePost`, `Spec => OneDelete`: it implements `OneRequest`, twice | – |
| `StoredAsEntered` | `Spec => []SentAsEntered` (PasteTab) | – |
| `MessagesTell` | `Spec => []FlashTells` (PasteTab) | – |
| `PasteViewTyping` | `Spec => []PasteViewTypeOK` | – |
| `PasswordOpens` | `Spec => RightPasswordOpens` (Envelope, PasteView) | – |
| `OpenedOnce` | `Spec => NeverRelocked` (PasteView) | – |
| `ServedHighlighted` | `Spec => []HighlightedForClass` (PasteView) | – |
| `LinksLand` | `Spec => []LinesFollowHash` (PasteView) | – |

**BurnedOnce.** `BurnOnce` alone is not inductive: a reader that holds a burn paste
is safe only if that paste is no longer in the table and no other reader is
about to return it. The invariant `BurnInv` says why. Every row in the table or
in a request's hands was stored by the POST it names (`Traced`), a POST stores
at most one row (`StoredOnce`), an id is given to at most one paste (`SlugOnce`)
and what it was given stays until the id is retired (`SlugHolds`), the path
through `Get` alone carries no burn paste (`GetSparesBurn`), and a burn paste
handed out is no longer in the table (`Consumed`). `~Reuse` enters in `SlugOnce`:
when an id is drawn again, `PeekMeta` may see a paste without the burn flag and
`Get` return its successor, a burn paste, without deleting it.

The step is proved through its effect on the table. `StepShape` shows that every
step of `Next` is quiet (no row stored, removed or handed out), or a `Removal`,
an `Insertion`, a `Looks` (a SELECT), a `Serve` (a paste of the Get path is
returned) or a `Take` (`GetAndDelete`), and one lemma per shape shows that the
invariant survives it. `GetSparesBurn` and `StoredOnce`, which depend on where a
request is, are shown step by step.

**SlotsCounted.** `slots` is the cardinality of the set of uploads between the
gate and their return; each step of a POST adds that POST to the set, removes it
or leaves the set alone, and a restart empties it. Finiteness of `Creators` is
what makes cardinality step by one.

**AnswersTrue, NoPasteMissed, NoneServedLate, RemovalJustified, ProtectionHolds**
(`SqlAnswers_proofs`). A step of a request touches no other request (`Isolation`), and
the table only loses rows or gains one under an id nobody holds (`Effects`). From that,
`AnswerInv` (what a POST has stored, by where it is) gives `AnswersTrue`. The other
four speak of what a request knows: `Recall` relates what it has read since its arrival
to what was there when it arrived, `wit`: the same row, or that paste has expired or
left its id (`Elsewhere`). So a 404 is never given for a paste that was there and live
throughout. `Reading` says that the row a reader is about to return had not
expired when the request arrived. For the removals `BurnInv` is used again: without
`Reuse` the row a DELETE by id removes is the row that was read (`SeenIsThere`), so
it is expired, or a burn paste in its reader's hands, or one somebody asked to delete.
`~Reuse` and the protection cannot be dropped: an id drawn again and protection switched
off, under [Disagreements](#disagreements-found), say how. `JustifiedRemoval` is about SQLite
because PostgreSQL may commit the DELETE of a burn paste and lose the reply.

**RedisBurnedOnce, RedisHandedAsSent, RedisAnnouncedStays** (`RedisPastebin_proofs`). The
difficulty is the time between the two pipelines of `Save`. `HalfWritten` says
that there a POST has its id to itself, the hash holding its content and nothing
else, or gone for good; `Whole` that after the second pipeline the hash
is as it was sent until the id is retired, and that no other POST was given the id;
`Origin` that content is under one id only. `Asked` says that a client's id is
one under which a paste was stored whole, which is where `~Guess` enters, so what it
reads is never half a paste (`Handed`), and `Get` sees the very paste `PeekMeta` saw or
none (`RedisSparesStep`). A burn paste that was handed out has left Redis
(`Burned`). As for SQL, each step of `RedisNext` has one of a few shapes
(`RedisStepShape`), and one lemma per shape carries the invariant (`HashesInv`).
`~Reuse` and `~Guess` cannot be dropped: see below.

**PromiseKept, RedisPromiseKept.** The step is again sorted by its effect, and a lemma per
effect maps it (`StutterMaps`, `VanishMaps`, `SaveMaps`, `HandMaps`, `ReadMaps`, `BurnMaps`). What the mapped state
needs besides comes from the invariants: a POST has stored nothing before (`StoredOnce`), a
row that is handed out was saved, with that flag (`Traced`), a burn paste was under no
other id (`SlugOnce`), and a reader has been handed nothing before (`GivenBy`).
With `Reuse` it does not hold: a burn paste stored under a freed id between `PeekMeta` and `Get`
is handed out by `Get` and stays.

**RedisSlotsCounted, RedisAnswersTrue, RedisNoneServedLate, RedisNoPasteMissed.** These
are statements about SQL of which the run `redis` checks none, for want of time and not of
need. `RedisStepOf` says that a step of a request leaves all others alone, and `RedisEffects`
what it does to the hashes. Slots are then counted as for SQL. `RepliedInv` has what a
POST has stored by where it is: nothing until its second pipeline, so half a paste is never
answered 201. `TableLive` says that Redis drops a key when its time comes, which the
SQL tables do not; so whatever a reader sees was live (`HandsLiveInv`). For the 404,
`Missed` relates what a reader was told to what was there on arrival, `Settled` says that a hash
once retired is gone with all its fields. There `~Guess` is needed: a DELETE between the
two pipelines of `Save` leaves the second to write flags without content, a hash that
`PeekMeta` finds and `Get` does not. So is `~Reuse`, in `RedisInv`. The first three hold
whoever asks for what.

**FewSteps, RedisFewSteps.** `StepsLeft` counts the steps a handler has left at most: by its
label, two less for each try of the retry loop that has failed, one to three more while
the expiry of a row it read is still to be checked. Each step of the handler lowers it
(`ActsLower`, `RedisActsLower`, from one lemma per kind of step), no step of anyone else
raises it, and it is zero when the answer is given. This is the part of `Answered` that is not
about scheduling: no path through retries and fall-backs is longer than ten steps. The
run `live` adds that under fairness the steps are taken.

**AlwaysCapped, AlwaysHonoured.** The invariant says that the stored column is
what `Upload` computes from the query and the time of the upload. Without
overflow the duration is the product, `resolveTTL` keeps it in `1 .. max`, and
rounding down loses less than a second. `NoOverflow` cannot be dropped: the run
`wrap` is the counterexample.

**LimiterSafe, LimiterIsIdeal, HostsLimited.** `LimiterInv` is inductive: `AsksMapped`
says that a request between `get` and `Allow` holds the limiter the map has for
its key. A sweep cannot break that, because the request's own `get` set `seen`
less than `MaxStall` ago and `MaxStall <= Ttl` (`AskedIsFresh`). `SeenWhenUsed`
bounds how much later than `seen` a bucket was used, so an entry that is stale
has a bucket that `Refilled` makes full (`StaleIsFull`): forgetting it and
making a new one gives the same level. That is the refinement; the other steps
are arithmetic on `Avail`. For `HostsLimited` the invariant is that what a host
was given and what its bucket holds together come from burst and rate
(`HostInv`). `KeysAreHosts` cannot be dropped: the run `ports`.

**NeverMixed, LabelsTruthful, ChoiceHonoured.** `OneLanguage` is inductive given the
types. For the labels the invariant (`LabelInv`) adds that the expiry chosen can be put in
words: `WholeUnits` says that the default and every menu entry is a whole number
of the unit `formatExpiry` picks. It cannot be dropped: a
setting `PASTEBIN_EXPIRY_TIMES` may have an entry such as `90 Min:5400`
(`README.md:164` asks for no whole unit), which a language change turns into "1 hour". For the choice
(`ChoiceInv`) an undisturbed page is at rest in the language wanted, or loads that one
and nothing else.

**SendGuarded, DeleteGuarded, OnlyOnePost, OnlyOneDelete.** A flag alone is not
inductive. `FlagInv` says that at most one request of the page is live
(`Exclusive`), of the page's own kind (`OwnKind`; only what is live is still being
encrypted, `SealingIsLive`), that while one is live none has succeeded and
nothing hangs (`Undecided`), which page success and a hang belong to (`Endings`),
and that each flag is set just then (`Flagged`). For the refinement the number of live
requests is 0 or 1 by `Exclusive`, and `Moves` sorts the steps of `Next` into those
that leave it alone, begin a request, end one, or start a page afresh: the four
actions of `OneRequest` and stuttering.

**StoredAsEntered.** `Carried`: a request on its way has the body of the form at its
click, sealed if and only if there was a password.

**MessagesTell.** `TellInv` relates an answer to the server's pastes: a page shows an
id that has been used, a 201 comes from a request that stored, and under its id is that
paste or none (`OwnPaste`), a 400 from an empty form or a ttl the server cannot read, every
other refusal but a 500 from a request that did nothing, and what was removed is still
gone because a used id is not drawn again. The theorem does not say that every message is true:
`Unknowing` names the four that may be false (see [Disagreements](#disagreements-found)),
and when.

**ServedHighlighted, LinksLand.** `ShownInv` needs `LockedInv`: on the
page of a paste that is not encrypted nothing is ever decrypted, and a text is never equal to
an encrypted one (`ClearIsNotSealed`), so the text as served is still the text the
page came with. `LineInv` adds that a link in GitLab's form is still to be handled.

**PasswordOpens, PasteViewTyping, OpenedOnce.** The loop of `uint8ToBase64` is a recursive
function, and the provers have no induction. In its place `Base64Identity` takes the least turn at
which the loop's result differs from the bytes read so far (`LeastElement`, from the
library's theorem that `<` is well-founded) and finds that there is none. `Pieces` cuts a
concatenation of salt, iv and ciphertext into the same three parts, `GcmDecrypts` recovers
the text from the tag, and `EnvelopeOpens` puts them together: what `aesEncrypt` writes,
`aesDecrypt` opens with the same password, for any lengths, and with no other. `ResultIs` says
so of an attempt on the page. `Exempt` is where the page refuses the right password: no
`crypto.subtle`, an empty text, or no encrypted text in a code block at the click, as always
on the page of an encrypted Mermaid paste. There the theorem claims no more than that the
text stays as it is. That a page shows an encrypted text or its own text and
nothing else (`BlockStep`, from `TypeInv` and `LockedInv`) gives the rest: the text of the page
changes from the one to the other, once.

Only model-checked: `Answered`, `ExpiredGoes`, `LoadsEnd`, `Translated` and `Told`, which
are liveness under fairness and so beyond the prover (`FewSteps` is what can be proved of the
first). Everything else a passing run checks is
also a theorem, under the assumptions of the table.

## Disagreements found

| run | the code | the documentation |
|---|---|---|
| `wrap` | `routes.go:230`: seconds times 10^9 wraps; a negative duration passes `resolveTTL` and means no expiry | `openapi.json.tmpl:22`, `README.md:117`: clamped to the limit |
| `ports` | `middleware.go:87`: without a trusted proxy the key is `host:port`, so each connection has a bucket of its own | `middleware.go:116, 238`: one limiter per remote IP |
| `unlock` | `custom.js:454` with `plugins/prism.go:28-30`: `init_plugins` is in the list of functions it calls, so it calls itself until the stack is full | `custom.js:1086-1088`: it "will then call Prism.highlightElement" on the decrypted text |

More behaviour that the models show when their constants are changed, where the
documentation is silent, or speaks of what is improbable or out of scope:

* An id that is drawn again. `Reuse = TRUE` in `read`, with two POSTs: the lazy cleanup
  of SQLite (`storage.go:355-358`) deletes by id after a check of a row read
  earlier, and removes the live paste stored in between (`JustifiedRemoval`). With 20
  random characters nobody will see it.
* Protection switched off. `Configs` with `protect` both ways and a restart, in
  `read`: `routes.go:388` looks at protection only while the feature is on, so a
  protected paste can then be deleted (`ProtectedOutlives`), although
  `README.md:163` says they go by expiry or burn only and `config.go:67-68` that
  toggling leaves existing pastes unaffected.
* Half a Redis paste. `Guess = TRUE` in `redis`: between the two pipelines of `Save`
  (`storage.go:947`) a reader who guesses the id is served a burn paste without
  burning it (`HandedAsSent`, `BurnOnce`), and one who deletes it there leaves flags
  without content behind (`NotFoundJustified`).
* A send that hangs. Without `hung` in `SendFlagExact`: a rejected `aesEncrypt`
  (`custom.js:1018`; there is no `crypto.subtle` on plain HTTP) leaves flag and
  buttons set and shows no message; so does a page that succeeded and comes back
  from the browser's back/forward cache.
* A menu entry that is no whole number of its unit, see `LabelsTruthful`.
* A failure that was none. `Tells` without `Unknowing`: the answer to a POST or DELETE that
  was carried out is lost, its JSON is cut off, or the database fails after the commit (500),
  and the page says "Network error - could not reach the server", "Failed to create paste",
  "Failed to delete the paste" (`custom.js:858-865, 1006-1013`) of a paste that is
  stored or gone. A user who tries again has two pastes, and the url of one.
* "Empty paste". `Tells` without `MisreadOptions`: the 400 "invalid ttl" of
  `routes.go:226-228` is shown as `msg-empty-paste` (`custom.js:950-951`), whatever was
  entered.
* "Copied!" for good. An invariant `timers = << >> => copyLabel = "copy"` in `view`: a second click
  within 800 ms saves the temporary text and its timer brings that back
  (`custom.js:902-907`). `btn.disabled` does not prevent it, `copy-btn` is a link
  (`index.html:89`).
* An encrypted Mermaid paste. `RightPasswordOpens` without the third part of `Exempt`: its page
  has Mermaid's div and no code block (`index.html:394-400`), so `custom.js:1037-1044` reads an empty
  cipher text and the right password is refused as wrong, always, although
  `index.html:432` says "Enter the password to decrypt it in your browser". The same happens when
  an encrypted paste of another language was first drawn as a diagram. Without the first and second part: the same
  warning for the right password where there is no `crypto.subtle`, and for an empty text.

Seen while reading, without a model: a body of unknown length is cut at the limit
by `io.LimitReader` and stored with 201 (`routes.go:162`), where
`openapi.json.tmpl:81` and `README.md:468` promise 413; `DefaultTTL` is never read by
the handler (`routes.go:223`), though `README.md:115` says it is used if no `ttl` is
given; `getBrowserLanguage` knows no way from a browser's `zh` or `uk` to the
files `cn` and `ua`; a browser that blocks `localStorage` ends the whole
start-up listener at `custom.js:381`; a failed send navigates away and loses the
text that was typed.

## Not modelled

* Logger, API description, styles, packaging, and the theme, drop-downs and password
  meter of the client: output and appearance.
* `prism.js`: third-party. `PasteView` has what `custom.js` sees of it: a script that
  comes late or never, highlights, and follows `#pre.N` on `hashchange`.
* AES-GCM and key derivation: libraries, in the models an injective function.
* Routing, prefixes, headers, TLS: a mapping of requests to the handlers modelled
  here. Headers that let a browser cache the start page and `/config` are left out with
  them; a page of `PasteTab` is always the one that was asked for.
* Set-up, vacuum, statistics and `Close` of the backends: they run before the first
  request or after the last, or change no row. `Close` is called once, by `main.go:136`.
* `newStorage`: one decision at start-up between backends that are modelled each on
  its own. That it falls back to SQLite is in the code's log and listed as a hazard.
* The zombie reaper: one loop that waits for children until there are none; a signal
  that comes meanwhile stays in its channel and starts it again.
* The plugin manager and the parsers of `config.go`: they turn settings into
  values before the first request; these are constants of the models.
* Which text has which translation key, which the files of a language lack, and the
  template's words before a language has come ("Expires: 1 day" whatever the default).
