# VibeChat in TLA+

VibeChat is a chat backend in Go: a REST API and a WebSocket endpoint over PostgreSQL
(or MySQL), with an optional Redis cache. Every HTTP request runs in a goroutine of its
own and talks to the database one statement at a time. Apart from
`ChatRepository.CreateWithMembers` there is no transaction, and no use case takes a
lock, so nearly everything that can go wrong goes wrong *between two statements*. That is what
these modules model: one action is one SQL statement, cache command, channel operation
or map operation, together with the Go code up to the next one, and any two requests
interleave at that grain.

Paths below are relative to the repository; `uc/` stands for `internal/usecase/`, `pg/` for
`internal/infrastructure/storage/postgres/`, `my/` for `.../storage/mysql/`, `cached/` for `.../storage/cached/`, `ws/` for
`internal/delivery/ws/`.

## 1. Inventory

| component | state | operations that change it | what makes it hard |
|---|---|---|---|
| chat use case, chat repository (`uc/chat`, `pg/chat.go`) | `chats` (type, deleted_at), `chat_members` (role, joined_at) | CreateDirect, CreateGroup, UpdateGroup, AddMember, RemoveMember, ChangeMemberRole, LeaveChat | each operation is 2-5 statements; a role is read, then used after others have written; a statement may fail half way |
| cached chat repository (`cached/chat.go`) | keys `ismember`, `chatmember`, `chat` | fills on a miss; Set or Del around every write | fill and invalidate are not atomic with the SQL; errors of the cache are ignored |
| cached user repository (`cached/user.go`) | key `user` | the same | the same; the patched copy may come from the cache |
| message use case, message repository (`uc/message`, `pg/message.go`) | `messages`, `message_reactions`, `chat_read_receipts` | Send, Edit, Delete, AddReaction, RemoveReaction, MarkRead; GetHistory reads | checks precede the write; two clocks; keyset paging while rows come and go |
| user use case, user repository (`uc/user`, `pg/user.go`) | `users`; the tokens in circulation | Register, Login, RefreshToken, UpdateProfile, SetOnline, SetOffline | look-before-write backed by partial unique indexes; compensation after a failure; tokens outlive the row |
| MySQL repositories (`my/`) | the same tables | the same statements | an UPDATE that changes nothing counts no row; the collation of emojis |
| WebSocket delivery (`ws/`) | rooms (`sync.Map`), a 256-place channel per client, presence | ServeHTTP, Subscribe, Unsubscribe, BroadcastToChat, the two pumps | two goroutines per connection, unlocked iteration over a changing map, full buffers, disconnects at any point |
| rate limiter (`middleware/ratelimit.go`) | counter and window per address | request, purge | window boundary; purge |
| cache (`infrastructure/cache`) | key-value map with expiry | Get, Set, Del | expiry, failing commands |
| process (`cmd/app/main.go`, `storage.go`, `router.go`) | the two HTTP servers, the connection pool, the purging goroutine | start, Run, Stop, close | a signal at any moment, also before Run listens; a deadline shared by two shutdowns; requests under way |
| auth, CORS, logging, config, hashing, validation, migrations | none of their own | | stateless |

Interaction: handlers call the use cases; use cases call repositories; `main.go`
wraps the chat and user repositories in the cached ones when a cache is configured. The
message use case sees the chat tables only through `IsMember`. The WebSocket handler
reads the memberships once, through `GetUserChats`, and writes presence through the user use case.
REST operations do not notify the hub: `Hub.Dispatch` has no caller.

What correctness means, per component:

- **chats**: a live group has an owner; ranks and authority are respected although what
  a request has read is stale; a direct chat stays a pair; there is one per pair;
- **caches**: an entry agrees with its row between calls, or at least again some time after the last
  write; a patch changes only what it names;
- **messages**: deletion is final; everybody changes only what is his; replies stay
  in their chat; only (former) members write, and a removed one not for ever; a walk over the history loses and repeats
  nothing; what was read stays read, what arrives meanwhile is not lost;
- **accounts**: unique names and emails; a confirmed account exists; a failed
  registration leaves nothing, and nothing of it comes back;
- **WebSocket**: order kept, no goroutine blocks or leaks, no dead client in a room, presence
  ends offline and goes offline only for a reason;
- **rate limiter**: the number of requests let through is bounded, and nobody is
  refused without a recent cause;
- **process**: no request is accepted without storage, none is cut off before the deadline, and a signal ends the process.

`PROJECT.json` lists the hazards, each with its line and the properties that would catch it.

## 2. Modules

| module | models | run of |
|---|---|---|
| `ChatService` | `uc/chat/chat.go` over `pg/chat.go`: one action per statement | itself (`ChatOwnerless`, `LeaveStuck`), and the three below |
| `ChatAudit` | `ChatService` with two history variables: `held`, which managing roles each user has had, and `during`, which roles the caller and the target of a RemoveMember have had since it began | `MCChatAudit` |
| `NextOwner` | `ChatService` with the order in which `GetMembers` lists the members, and the loop of `nextOwner` over that list | `MCChatRefinement` |
| `ChatGroup` | the abstract specification: each operation is one atomic step, as the API describes it | through `ChatRefinement` |
| `ChatRefinement` | the refinement mapping from `NextOwner`, and so from `ChatService`, to `ChatGroup` | `MCChatRefinement` |
| `MembershipCache` | one membership row and its two cache keys (`cached/chat.go`) | `Posting` |
| `Posting` | `MembershipCache` with Send asking it (`uc/message`, assertMember) | itself |
| `CachedRow` | one chat or user row, its cache key, and the read-patch-write of UpdateGroup and UpdateProfile | itself, `LostUpdate` |
| `Conversation` | the abstract specification of messages as the readers of a chat see them: each operation is one atomic step | through `Messages` |
| `Messages` | Send, Edit, Delete, reactions, and the refinement mapping (`postsBar`) to `Conversation` | `MCMessages` |
| `ReadReceipts` | MarkRead and the unread count, over two clocks | `Inbox` |
| `Inbox` | `ReadReceipts` with a client that pages through the history: limit, keyset query, cursor | itself |
| `Accounts` | Register, Login, RefreshToken and UpdateProfile over the unique indexes and the cached user row | `MCAccounts` |
| `WsHub` | connections, rooms, pumps, presence | itself |
| `RateLimit` | the limiter and its purge | `Server` |
| `Server` | `RateLimit` inside the life of the process: start, requests through the middleware, signal, Stop, close | itself |
| `ChatProofs` | theorems about `ChatService` and `ChatAudit` for any number of concurrent requests, about `ChatService` and `ChatRefinement` for requests that do not overlap, and about `NextOwner` | tlapm |
| `MembershipCacheProofs` (also `Posting`), `CachedRowProofs`, `MessagesProofs` (also `Conversation`), `InboxProofs` (also `ReadReceipts`), `AccountsProofs`, `WsHubProofs`, `ServerProofs` (also `RateLimit`) | theorems about the module they extend | tlapm |

The `MC*` modules only define symmetry sets. Definitions marked "Faulty variant" are not part of any
specification: each is a plausible mistake in the definition that follows it, and `PROJECT.json` names the property
that catches it.

**Processes.** In `ChatService`, `Messages`, `Accounts`, `MembershipCache` and `CachedRow` a
member of `Procs` is a request goroutine; `pc[p]` is the statement it runs next and
`req[p]` what it carries from one statement to the next: the request, and what it
has read and will use later. That copy is where staleness lives. A process serves any number of requests, one after the other.
A request that returns without writing leaves no trace, so an early return at the
first statement is no step at all (the action is not enabled) and a later one ends the request.

**Reading the chat modules.** `IsLiveGroup`, `DirectChatOf`, `InsertRow`, `DeleteRow`, `WriteRole`,
`DeleteChat`, `CreateWithMembers` are the repository's statements; `AddBegin`/`AddCaller`/`AddProbe`/`AddInsert`
and their like are the steps of an operation; `Fail` is a statement that fails (database error or
cancelled request context) and leaves what was written so far. `ChatService` models the deployment without a cache, as
`main.go` builds it when no cache is configured; what the cache adds to staleness is
`MembershipCache` and `CachedRow`. `ChangeMemberRole` takes any role a client may send
(`RoleInput`) and refuses what `Validate` refuses. The constant
`Driver` is the configured database: the two repositories issue the same statements, but MySQL's RowsAffected counts the
rows an UPDATE changes and postgres' those it finds (`RoleRowAffected`).

**Reading the cache modules.** Operations on one row touch only that row's keys, so one
row is enough. `Lose` is a cache command that fails: the code logs it or drops the error, and goes on.
`Expire` is the TTL, lazily in Redis or by the mock's sweeper. In
`MembershipCache`, `suspect[k]` records that an entry was outdated when set or
that a command that should have replaced it was lost. In `CachedRow` the variable `repo` says which of the two
repositories, which differ in the order of Update, the row is behind; `overlapped` records that two requests have been in
progress at once.

`Posting` adds the sender. Its `sending` is what lies between assertMember's answer and the INSERT, so a send that was allowed by
a stale "1", or by a row that has gone since, is a behaviour of it.

**Reading Inbox.** `Walk` is one page request of the client, `MarkInbox` its MarkRead; `Others` is everything the other members do.
`got` is what the client has been given so far. The two clocks may differ by `MaxSkew` in either direction
(`ReadReceipts!DatabaseNow`), and the theorems hold for every such skew.

**Reading Accounts.** `issued` is the set of users with unexpired tokens; whoever holds one can refresh it or change the profile. `cache`
is the username in the cached copy, the only cached column that a property is about. Both the fill and the Del may be lost.

**Reading Server.** `main` is the position of the main goroutine. The goroutine of `Run` contributes `SetPprof` and `Listen`, at
any time after it was started, also after the signal; `Stop` may miss a `pprofSrv` that was set without synchronisation. `Query` and
`QueryEnds` are a handler's statements. `CloseReturns` waits for the connections in use, as `pgxpool.Pool.Close` does; `sql.DB.Close` does not, and ends earlier.

**Reading NextOwner and Conversation.** `Round` is one iteration of the loop in `nextOwner`, `Rounds` the states it goes through. `Relist` keeps the
order of those who stay and puts a new member last. `Conversation` has a message as one value together with its reactions; `Shown` is what a
reader sees of a row: the reactions of a message that is not deleted (GetHistory leaves deleted ones out). A reaction that arrives after the deletion is
therefore a step nobody sees.

**Reading WsHub.** `pc` is the handler goroutine, which becomes the read pump; `wpc` is the write pump.
`stuck` are the users whose last status update failed or was cut off by the exit. `Visit` is one step of `sync.Map.Range`, which guarantees only that no key
is visited twice and that a key present throughout is visited. `Exit` is the end of the process:
`http.Server.Shutdown` does not wait for upgraded connections.

**Abstractions.** Names, texts, emojis and payloads are model values. Time is
a counter where it matters (`Inbox`, `ReadReceipts`, `RateLimit`) and an order in `NextOwner`. uuid.New is a fresh
identifier. `Messages` knows of the chat use case only who has ever been a member of a chat (`joined`): a membership
check may be answered by the row or by an old cache entry, so this is all that a passed check tells; because this
answer only ever turns from no to yes, `Messages` asks for it in the step that writes. `WsHub` gives a
connection any set of chats when it is made; the code never looks at the memberships again. Passwords are left out of `Accounts`: Login is
called by whoever knows one.

## 3. Runs

### What holds

| run | shows | bounds |
|---|---|---|
| `ChatConcurrent` | over MySQL, under every interleaving of two requests nobody changes a membership without having held the authority (`AuthorityRequired`), nobody takes out a user he has not outranked while the request ran (`RankRespected`), a founder who never handed over is still owner (`FounderKeepsGroup`), and a direct chat stays a pair of plain members although ChangeMemberRole looks at neither type nor deletion (`DirectIntact`) | 3 users, 1 chat, 2 requests at a time |
| `ChatRefinement` | over postgres, requests that do not overlap, one of them cut off by an error, implement `ChatGroup` (`ImplementsGroup`); an owner is always present; a LeaveChat that is not cut off takes its caller out, also when it repeats one that was (`LeaveLeaves`); the loop of `nextOwner` picks the oldest admin, else the oldest member (`PicksOldest`), and nobody else becomes an owner of an existing chat (`SuccessionByAge`) | 3 registered users and one id without an account, 2 chats, 1 failure |
| `Posting` | a stale membership entry always has a cause: a writer not yet done, an overlap, or a lost command (`StaleHasCause`); once the memberships no longer change, both keys agree with the row for good, and a user without a row can no longer send (`EventuallyEnforced`) | 3 calls or sends at a time, 3 writes, 1 lost command |
| `CachedRow` | behind either repository: without overlap and loss the cache is coherent between requests (`SerialCoherent`) and a patch changes exactly what it names (`SerialPatchExact`); in any case a stale row in the cache goes away after the last write | 2 fields and the status, 2 values, 2 requests at a time, 2 writes, 1 lost command |
| `Messages` | while edits, deletes, reactions and joins overlap, each request takes effect for the readers in one step or not at all, with its rules kept at that step: `Messages` implements `Conversation` (`ImplementsConversation`); a deleted message stays as it is, and only requests that had passed their check before may still add or take a reaction (`DeletionIsFinal`); everybody writes with his own hand, writers are or were members | 2 users, 2 chats, 2 messages, 2 emojis, 1 reaction at a time, 2 requests at a time |
| `Inbox` | a walk is strictly descending over all pages, skips nothing that lasts, never indexes an empty page, and each page but the last brings something, so it ends (`NoIdlePages`); what was read stays read and only a message in flight, or built within the skew, is missed; a client that marks before it fetches has been shown or is still told of everything else (`MarkFirstMissesNothing`) | 2 users, 3 messages over 3 instants, 1 deletion, skew 1, limits 0, 1 and 9 (default 2, maximum 3) |
| `WsHub` | order and uniqueness per sender (`InOrder`), the drain loop never waits, no dead client in a room, a user without a connection ends offline unless an update failed or the process ended (`LastOneOut`), one with a connection is shown offline only if another of his was closed or an update failed (`OfflineHasCause`), both goroutines of a broken connection end | 2 connections of one or two users, 1 room, 3 events, 2-place buffers, 1 failure or exit |
| `Server` | at most two windows' worth of requests pass in any window of time, whatever the purge does, and a refusal has a recent cause; nothing is accepted without storage, whenever the signal comes (`ServesWithStorage`); storage is closed under a request only after the deadline (`CutOffOnlyByDeadline`); after the signal the process ends unless a statement never returns (`ShutdownEnds`) | 1 address, limit 2, window 1, 3 ticks, 2 requests at a time |
| `Accounts` | names and emails unique, confirmed accounts live, failed registrations leave nothing unless the compensation fails too; an account that was taken back, once its copy has expired and its requests have ended, never returns, and tokens left over cannot be renewed (`GoneForGood`) | 2 ids, 2 emails, 3 names, 2 requests at a time |

### Where code and documentation disagree

Three runs end in a counterexample; `PROJECT.json` quotes the lines.

| run | counterexample |
|---|---|
| `ChatOwnerless` | the owner leaves and promotes a member who is leaving too and was read as a plain member: both rows go, and the group lives on without members |
| `LeaveStuck` | over MySQL: the owner of a group of two leaves, the other is promoted, the removal of the owner fails; every repetition picks the same successor, whose role does not change, so RowsAffected is 0 and LeaveChat answers "not a member", unless the owner first demotes the other |
| `LostUpdate` | two concurrent patches of different fields: the second write restores the first one's old field |

Smaller gaps that the modules contain as behaviours but for which there is no run of their own:

- two concurrent CreateDirect of one pair both find nothing and both create (`DirectLookup`, `DirectCreate`), although the API
  promises to return the existing chat; `ImplementsGroup` has one chat per pair because its requests do not overlap;
- "owners/admins remove members; only owner can remove admins" (`uc/chat/usecase.go:20`) does not hold of the roles at the moment of the DELETE:
  RemoveMember reads the target two statements earlier, and a target who has become an admin (ChangeMemberRole) or the owner (the
  promotion of a LeaveChat) since then is removed all the same; in the second case the group can be left without an owner.
  `RankRespected` therefore judges by the roles the two had while the request ran;
- `cached/chat.go` deletes the entry *before* the write, so a reader in between caches the old row, and in `cached/user.go` a reader
  that missed sets the old row after the writer's Del; hence the condition in `SerialCoherent`;
- a reaction lands on a message deleted since its check (`Messages!ReactInsert`), which `DeletionIsFinal` allows only for requests already under way;
- in MySQL the column `emoji` has the collation `utf8mb4_unicode_ci`, under which characters outside the basic plane, and so most
  emojis, are equal: a second reaction of a user is silently ignored, and removing one reaction removes another. With
  `Driver = "mysql"` TLC finds `OwnHandOnly` violated by `ReactDelete`; with postgres it holds;
- in the order "fetch, then MarkRead" a message that arrives in between is neither shown nor counted; `MarkFirstMissesNothing` therefore speaks
  of the other order;
- a pprof request under way uses up the 30 seconds of the shutdown while the API server goes on accepting (`Server!StopPprof`); the
  API requests are then cut off at once;
- somebody who logs in between the INSERT of a registration and its compensating Delete holds tokens of a removed account and can refresh them
  as long as a copy is cached;
- the last member's row survives the deletion of the group and IsMember does not look at the chat, so he can go on sending;
- a limit below 1 becomes 30, where the API documentation speaks of clamping (`Inbox!Limit`);
- a user removed from a chat keeps broadcasting to its room until he disconnects (`WsHub!Upgrade` takes the snapshot), where the
  repository's README says that membership is validated.

### Why the bounds are enough

Two processes reach every pairwise race between a check and a write; the third
user or the third call (`Posting`) adds the bystander
whose entry or role the race may damage. In `Accounts` two requests and two ids are enough for a race on one name, and the third name lets
a stale copy bring back a name the other has taken meanwhile. One chat suffices where operations never
relate two chats; two are used where they do (`ChatRefinement`, `Messages`). In `WsHub` two places and three events are the
least with which two events wait in a buffer, so that they could be swapped, the drain loop runs with n > 0, and a third event is dropped. `Inbox` has
pages that are full, partly full and empty, and ties across a page
boundary; its skew of one instant lets the receipt be ahead of, equal to and behind the server's clock. `Server` has one address because the
limiter treats addresses alike, and `RefusedInWindow`, the property that relates to other addresses, is proved for any set of
them; its clock passes three windows of one tick, and `PurgeEvery` is
shortened from ten windows to 2 ticks so that a purge falls inside, between and at the end of windows. Counters that
the code leaves unbounded are bounded by `MaxWrites`, `MaxLost`, `MaxReactions`, `MaxDeleted`, `MaxFailures`, `MaxEvents`,
`MaxTime` and `MaxCount`, in guards.

All runs say `CHECK_DEADLOCK FALSE`: when ids are used up, the clock is at its bound, or every
connection is gone, the bounded system has nothing left to do, as an idle
server has.

Symmetry is used where no liveness is checked (`ChatConcurrent`, `ChatRefinement`, `Messages`, `Accounts`), and only over sets
whose members are interchangeable: in `ChatRefinement` the user without an account is none of them.

### Fairness

- `Posting!PostSpec`, `CachedRow!Spec`: weak fairness of each goroutine's next step (a
  goroutine inside a call goes on) and of `Expire` (every Set has a TTL; `cache/config.go`
  replaces a zero TTL by the default). Callers are under no obligation to call.
- `WsHub!FairSpec`: weak fairness of the handler's own steps, the UPDATE of SetOffline among them (it runs under `context.Background()`, so it is assumed that
  the database answers it), and of the write pump's, the ping
  ticker among them (`client.go`, pingPeriod). Nothing is assumed of the peer: neither that it sends, nor that it closes.
- `Server!ServerSpec`: weak fairness of the main goroutine and of its timer. That includes that `storage.New` returns. Nothing is assumed of requests or of
  profiles; that the statements of requests return is a hypothesis of `ShutdownEnds`, because `Storage.Close` waits for them without a limit.

## 4. Theorems

For every set of users, chats, goroutines, messages and addresses, every bound and every number of failures:

| module | theorem and what it states | inductive invariant |
|---|---|---|
| `ChatProofs` | `TypeCorrect`: `[]TypeOK` | `TypeOK` |
| | `DirectChatsIntact`: `[]DirectIntact` | `DirectInv` |
| | `FounderKept`: `[]FounderKeepsGroup`; `AuthorityHolds`: `AuthorityRequired`, an action property | `AuditInv` |
| | `RanksKept`: `RankRespected`, an action property | `RankInv` |
| the same, for one request at a time | `SerialOwnerPresent`: `[]OwnerPresent` | `SerialInv` |
| | `RequestsAreOperations`: `ImplementsGroup`, the refinement; `OneOwnerEach`: `[]ExactlyOneOwner`; `LeavingWorks`: `LeaveLeaves` (PostgreSQL) | `AloneInv` |
| the same, about `NextOwner` | `OldestPicked`: `[]PicksOldest`; `LoopFindsSuccessor`: `[]LoopAgrees`; `ListInvariant` | `ListInv` |
| | `OldestSucceeds`: `SuccessionByAge`, an action property, for one request at a time | `AloneInv`, `ListInv` and `Promised` |
| `MembershipCacheProofs` | `StaleEntriesExplained`, `StaleWhilePosting`: `[]StaleHasCause`; `CacheTyped` | `CacheInv` |
| `CachedRowProofs` | `CacheNeverOld`: `[]SerialCoherent`; `PatchesExact`: `SerialPatchExact` | `RowInv` |
| `MessagesProofs` | `RepliesInChat`: `[]RepliesStayInChat`; `OnlyMembersWrite`: `[]WrittenByMembers`; `DeletedForGood`: `DeletionIsFinal`; `OwnHand`: `OwnHandOnly` (PostgreSQL); `MessagesTyped` | `MessageInv` |
| | `RequestsTakeEffectAtOnce`: `ImplementsConversation`, the refinement | `ViewInv` |
| `InboxProofs` | `NeverUnreadAgain`: `[]ReadStaysRead`; `OnlyRacesAreMissed`: `[]MissedOnlyByRace`; `ReceiptsTyped` | `ReceiptInv` |
| | `StablePages`: `[]StrictlyOlder`; `NoneSkipped`: `[]NothingSkipped`; `NeverPanics`: `[]NoPanic`; `PagesBringMessages`: `[]NoIdlePages`; `MarkFirst`: `[]MarkFirstMissesNothing`; `ReadingIsReceipts`: `InboxSpec => Spec` | `InboxInv` |
| `AccountsProofs` | `LiveAreUnique`: `[]UniqueLive`; `ConfirmedStay`: `[]ConfirmedLives`; `FailedLeaveNothing`: `[]NothingLeftBehind`; `GoneIsForGood`: `GoneForGood`; `AccountsTyped` | `AccountInv` |
| `WsHubProofs` | `DeliveredInOrder`: `[]InOrder`; `DrainGoesOn`: `[]DrainNeverBlocks`; `RoomsHoldTheLiving`: `[]NoGhosts`; `LastOneOutHolds`: `[]LastOneOut`; `OfflineExplained`: `[]OfflineHasCause`; `HubTyped` | `HubInv` |
| `ServerProofs` | `RefusalsJustified`: `RefusedInWindow`; `LimitTyped` | `LimitInv` |
| | `AtMostTwo`: `[]AtMostTwoWindows` | `WindowInv` |
| | `AcceptsWithStorage`: `[]ServesWithStorage`; `DeadlineOnly`: `[]CutOffOnlyByDeadline`; `LimitsInProcess`: the limiter's two bounds under `ServerSpec` | `ServerInv` |

Every inductive invariant was checked by TLC on the instance of its component's run before it was proved.

**Chats, any number of requests.**

- `DirectIntact` is not inductive: a request in flight could write to a direct chat. `DirectInv` adds that
  a chat without a row is blank, that a pending CreateDirect has an id of its own and two distinct users,
  and that every other request in flight is about a group (`WritersInGroups`). For ChangeMemberRole, which never loads the
  chat, this follows only because its caller was an owner and direct chats have none.
- `FounderKeepsGroup` talks about the present while requests act on what they read earlier.
  `AuditInv` says what a request may rely on although its reads are stale: its
  caller *has held* the role it was checked for, and a request about to delete a row knows of an owner, past or present, other than
  the one it deletes (`Rights`). With that, a group whose owner row vanishes has had two owners. `AuthorityRequired` needs the same facts.
- `RankRespected` is about what a RemoveMember has seen of two users at two moments. `RankInv` says that the present roles of the two, and the role read of the caller, are in
  `during`, and that a request at its DELETE has outranked its target (`RankKnown`). It holds for any number of overlapping
  requests, because `during` only grows while the request runs.

**Chats, one request at a time.** The hypothesis is `OneRequestAtATime == \A p, q \in Procs : p = q`; CreateGroup, one transaction, may still
fall between any two statements of that request, and any statement may fail.

- `SerialInv` says that what the only request has read about owners and deletion is still so (`ReadsHold`). This is exactly what
  `ChatOwnerless` breaks with two requests.
- `AloneInv` adds everything else a request has decided on (`Decided`: who may manage whom, that the one to be added is not there, whom
  `nextOwner` may pick, what the successor was before the promotion), and that rows belong to registered users and a deleted chat
  has at most one (`Rows`). The last is why ChangeMemberRole, which does not look at the deletion, has nobody to change in a deleted group.
- The refinement: outside a hand-over the abstract roster is the table (`BarQuiet`); between the promotion and the removal it is the table with
  the successor's old role (`BarHanding`). `MapStep` takes the actions one by one: reads and the promotion change neither bar, each last
  statement is one operation of `ChatGroup`, a failure in a hand-over is `HandOverHalf`. `OneOwnerKept` shows that every whole operation keeps
  one owner per group, and `ExactlyOneOwner` follows because the half one counts a failure.
- These theorems are about `Spec`, where LeaveChat picks any of `Successors`; `ListIsSpec` carries them over to `ListSpec`, which the run checks.

**The successor.**

- `ListInv` says that the list of a chat holds its members, each once. `LoopMeets` is the loop invariant of `nextOwner` (`Met`: the first admin so far, else the first
  other member, else nobody), for a list of any length. It needs two inductions over the rounds, that the recursive function `Rounds` has a value at every round
  (`LoopRuns`) and that each round keeps `Met`; both go through `Climb`, which takes the smallest round that fails. `PicksOldest` is then what `Met` says at the end.
- That the choice by the loop blocks nobody is not by construction, because `ListNext` adds it as a conjunct: `LoopFindsSuccessor` shows that there is always exactly one
  candidate left if there was any.
- `SuccessionByAge` is the documented promise, "LeaveChat transfers ownership to the oldest admin/member". The successor is picked in one statement and promoted in a later one; `Promised` says that whom a LeaveChat
  has picked stays the oldest candidate until it promotes him, which rests on a step keeping the order of those who stay (`OrderKept`); `OnlyPromotion` shows that no other
  operation makes an owner in a chat that exists.

**Caches.** `CacheInv` adds to `StaleHasCause` its types and that there is no row before the chat exists. To the cache a sender is one more caller
(`SendersAreCallers`), so the theorem holds of `PostSpec` too. `RowInv` follows the only request through its read, patch and
write as long as none has overlapped (`Alone`) and no command was lost: what it has read is the row, what it will write is the row with its patch, the chat repository writes
after its Del (`Copy`), and the entry is old only while a request is about to delete it (`Cared`). With that the two orders of Update, Del before the write and
Del after it, are both shown right; `LostUpdate` is what happens without `Alone`.

**Messages.** `MessageInv` says what a request that has passed its checks may rely on until it writes: its user has been a member of the chat, the
message it replies to or changes exists in that chat and is, for Edit and Delete, its user's own; and that there are no reactions to messages
that were never sent. `DeletionIsFinal` and `OwnHandOnly` are then shown action by action.

`RequestsTakeEffectAtOnce` takes the actions one by one (`ViewCreate`, `ViewUpdate`, `ViewReact`): reads are not seen, and each writing statement is one operation of `Conversation`
whose guard holds at that step because of `MessageInv`, or is not seen: an Edit or a second Delete of a deleted message, a reaction to one, a reaction that is there already.
It holds over MySQL too. There a user has at most one reaction to a message (`OneIfAlike`, the addition of `ViewInv`), so a DELETE takes away one reaction; that it may be another
than the one named is what `OwnHandOnly` forbids and `Conversation` does not speak of.

**History and receipts.**

- `ReceiptInv` extends both receipt properties to messages still being sent, which the receipt already covers or leaves open
  before they become visible, says that ids are unique and nothing is dated in the future, and bounds how far a receipt is from the
  instant it was taken.
- `InboxInv` adds where the walk stands (`Position`: the cursor is the last message returned), that whatever was there at its start has been returned or
  lies beyond the cursor (`Ahead`), and that without a later MarkRead what the first page could not show is younger than the receipt (`Counted`).
- What a page contains (`PageIs`) rests on the ORDER BY having a result: `SortExists` shows that every finite set of messages can be listed
  newest first. Its induction over finite sets is made by taking a smallest set that cannot be listed (`Smallest`, from the
  well-foundedness of strict inclusion on finite sets) and removing its oldest message.

**Accounts.** `AccountInv` adds that the row of a Register that has not answered is live, unconfirmed and its own (`RequestOK`, `OwnRows`), and that tokens and
cached copies are of rows that exist. `OwnRows` is why the compensating Delete of one registration cannot take away another's account.

**WebSocket.** `HubInv` bounds the drain by what the buffer holds (`Pumps`; only the write pump receives), keeps a connection to the rooms it still
has to leave (`Rooms`), and relates every event received to the broadcast its sender has under way: it is older, or it is that event and the
broadcast has visited the receiver (`Fits`). That makes the order inductive although the iteration over the map is arbitrary. `OfflineHasCause` is inductive with
the fact that a read pump is never without the write pump it was started with (`Started`), by which a connection that was open is told from a handshake that failed. The theorems are
stated for `Spec`, which `FairSpec` implies.

**Limiter and process.** `LimitInv` says that the last requests that passed, as many as the entry counts up to the limit, belong to the window of the
entry; that makes a refusal traceable to them. `WindowInv` says that all requests that passed before those, but for the last `MaxReqs`, are more than a window
older than the entry's window (`Apart`), and without an entry that the last window is over (`Over`): an expired entry and a purged one tell the same, which
is why the purge cannot help anybody. `ServerInv` ties the position of the main goroutine to storage and listener.

The assumptions are those named in the modules: in `ChatService` `RegisteredAssumption`, `MaxFailuresAssumption`,
`NoRequestAssumption`, `DriverAssumption`; in `NextOwner` that the users table is finite (`FiniteAssumption`); elsewhere that bounds are natural numbers and buffers have a place, any skew of the clocks, that the value standing for
"nothing" is none of the values (`NilAssumption`, `NoneAssumption`), that ids are ordered (`Inbox`), that the default page size is positive and within the maximum (`LimitAssumption`),
and that limit and window are positive, as `Config.Validate` demands (`RateLimit`). TLC evaluates them in the runs.

Only model-checked: liveness (`EventuallyCoherent`, `EventuallyEnforced`, `BothPumpsEnd`, `ShutdownEnds`), which is out of the prover's reach. Every other property of the
runs that pass is proved (and `ExactlyOneOwner`, which follows from the refinement); `OwnHandOnly` and `LeaveLeaves`, which are false over MySQL (section 3), for PostgreSQL only.

## 5. Not modelled

- **MySQL where it does not differ**: `GetUserChats` (ROW_NUMBER instead of DISTINCT ON) and Search are queries; MySQL's case-insensitive
  comparison of names and emails only makes more names equal.
- **GetProfile, Search, listing queries, reading reactions**: they change nothing.
- **JWT signatures, password hashing, validation, configuration, CORS, logging, request ids**: stateless.
  Issuing tokens may fail and tokens expire, which `Accounts` models. (RequestLogger and Recovery wrap RequestID and Auth, so their
  log lines carry neither the request's nor the user's id.)
- **That a removed account's tokens run out**: the stability form, `GoneForGood`, is checked; the liveness form makes the run too large
  because the symmetry would have to go.
- **The role checks of the chat use case through the cache**: `ChatService` reads the tables, `Posting` and `MembershipCache` show
  how long a cached answer may lag.
- **Accounts, an INSERT or UPDATE whose outcome is unknown**: `Accounts!Fail` has no effect on the table. A statement that commits although its answer is lost
  (`uc/user/user.go:69`), or a process that dies between the INSERT and the tokens, would leave an account that nobody was told of; `NothingLeftBehind` does not cover that.
- **Requests on kept-alive connections**: `Server!Accept` needs the open listener; a request that arrives on an idle connection in the moment before Shutdown closes
  it is not modelled.
- **A MarkRead that waits for a row lock**: NOW() and the write are one step of `ReadReceipts`; that the receipt is older than the write is covered only as
  far as the skew of the clocks goes.
- **`Hub.Dispatch`**: no caller.
- **The upgrade behind RequestLogger**: its `statusWriter` does not implement `http.Hijacker`, which gorilla/websocket needs, so
  an upgrade through the full middleware chain fails. This is a matter of types, not of the order of
  steps; `WsHub!Upgrade` has both outcomes.
- **Presence of a user with several connections**: closing one of them marks the
  user offline; nothing documents otherwise, so `OfflineHasCause` names this as a cause and does not exclude it.

## 6. Plan

Done, in this order: `ChatService` and its proofs, `ChatGroup` and the refinement, the caches, messages, history, receipts, WebSocket,
rate limiter, accounts; then MySQL as `Driver`, `Posting` (messages over the membership cache), `Inbox` (history composed with receipts,
two clocks), `Accounts` with tokens and cache, `Server`; then the
proofs of every safety property the runs check, `Conversation` and the refinement of `Messages` to it.

Extensions left:

1. a `Cached` parameter of `ChatService`, so that role checks may answer with an earlier role, and which of its
   properties survive (`AuthorityRequired` should; `RankRespected` should not, because a cached role may be older than the request);
2. the mock cache as a module of its own (sweeper, concurrent access) that implements the cache the repositories assume;
3. composition of `Messages` with `ChatService` in place of its `joined`, so that the deletion of the group is seen.
