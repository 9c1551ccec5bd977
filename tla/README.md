# Verification of the agent platform

TLA+ models of this repository's code, the TLC runs that check them and the
proofs that TLAPS checks. The code is a multi-user portal for agents that run
in Dify: a FastAPI backend (`src/backend/app`) that authenticates users,
decides what they may use, relays answers as server-sent events and mirrors
every conversation in its own database; and a React frontend
(`src/frontend/src`). All paths below are relative to `src/`.

Contents: 1 the system, 2 the modules, 3 the runs, 4 what the code does that
no property forbids, 5 bounds and fairness, 6 proofs, 7 what is only
model-checked, 8 what is not modelled, 9 the plan.

## 1. The system

| Part | State | Operations | Hard behaviour |
|---|---|---|---|
| Conversation mirror (`backend/app/chat/router.py`, `service.py`) | `conversations` (message_count, token_usage, dify_conversation_id), `messages` | `send_message` stores the question, returns a generator; the generator's `finally` stores the answer in a session of its own | several sends of one conversation overlap (Stop then send, two tabs); client gone at any yield; cancelled scopes; failed commits; death of the process |
| Chat relay (`stream_dify_events`) | current_event, pending_event_line, accumulated text and reasoning, usage, terminal, the open response | reads Dify's lines, relays them, inserts `reasoning`, `error`, `agent_done` | frames inserted between relayed lines; upstream that names its frames or does not, or breaks off inside one |
| Workflow translation (`stream_workflow_events`) | the same, without pending line | translates `text_chunk` and `workflow_finished` | failed runs, error events, lines after the end or a failure |
| Browser parser (`frontend/src/api/sse.ts`) | frame being read | parses lines, calls the handlers of the chat store | default event name, several data lines, unfinished last frame |
| Chat store (`frontend/src/stores/chat.ts`) | message buckets, active app and conversation, streaming flag, abort controller; per turn a buffer and a flush timer | send, stop, retry, switch, resume; the callbacks of each stream | callbacks of an old stream act on a new one; late answers; buffered text behind an error |
| Refresh tokens (`backend/app/auth`, `reset_password`) | `refresh_tokens`, users' password and status | login, refresh (rotation), logout, reset, disable | overlapping rotation; commit behind the response; logout with a dead cookie |
| Browser session (`frontend/src/api/http.ts`) | cookie jar, one refresh per tab or browser | refresh on 401, probe, redirect to login | several tabs, lost responses, probes that fail, the lock, which plain HTTP does not have |
| Departments (`backend/app/depts`) | tree with materialised paths, users' dept_id, grants | create, move with cascade, delete | overlapping moves, creations, deletions; no foreign keys |
| Authorization, roles, user administration (`authz.py`, `auth/deps.py`, `roles`, `admin`, `db/init.py`) | `users`, `user_roles`, the JSON snapshot, `roles`, grants of users, departments, roles | create and update users, replace roles and grants, create and delete roles, visible apps and datasets, seeding at every start | the gate looks once; full replacements overlap; the snapshot gives roles back; last administrator |
| Knowledge base (`backend/app/kb`) | datasets and documents in Dify, grants and audit rows here | create, delete, grant, documents | one of two systems fails; answers lost or late |
| Uploads (`backend/app/files`, `_resolve_files`) | files on a volume and their rows | upload, use in a send, sweep at start | crash between file and row; row without file; forwards that fail half way |
| Schema (`backend/alembic`, `db/init.py`, `scripts/migrate.sh`) | tables, their indexes, `alembic_version` | upgrade at every start with `create_all` behind it, downgrade and stamp by hand, releases forward and back | dialects with and without transactional DDL; processes killed; upgrades that fail for a moment |
| Others: catalogue, conversations, configuration, pages, mocks, deployment | see `PROJECT.json` | reads, forms, scripts | none of their own |

How they interact: the chat store calls `sendChatStream`, whose request runs
`send_message`; the generator writes the wire that the parser reads, and its
`finally` writes the mirror, which later sends read. Every request carries the
access cookie; on 401 the interceptor refreshes it, which rotates the token on
the server. Authorization reads departments, roles and grants that the
administration writes. All requests share one database at READ COMMITTED, one
transaction each; `get_db` (`backend/app/db/session.py:31-38`) commits what an
endpoint left uncommitted *after the response has been sent*. Each start of the
process upgrades the schema, seeds roles and grants and sweeps old uploads.

What makes each part correct is stated by its properties (section 3).

## 2. Modules

| Module | Models | Correspondence |
|---|---|---|
| `ChatMirror` | the database side of a turn | one `Turn` per request. `LoadConversation`/`CreateConversation`: the row is read or flushed; `CommitQuestion`: the commit before the response; `Frame`: one upstream event accumulated; `EndStream`/`Disconnect`: the two ways into `finally`; `PersistRead`, `PersistCommit`: the shielded save, two database steps; `AgentDone`. `snapCount`, `snapDify` are the ORM object as this session last read it: an UPDATE writes values computed from it |
| `SerialTurns` | `ChatMirror` with one history variable; extends it | `crossed`: the conversations in which two turns were under way at once. It is written beside every step and constrains none; a behaviour of `SerialSpec` is one of `Spec` (`OnlyHistory`, proved) |
| `TurnStream` | abstract specification of a streamed turn: Make, Show, Keep, Tell | not code: what the two generators promise |
| `SseClient` | browser end of the wire and connection | a line is an event name (`NoName` for a data line that names none), a data line or a blank; `Receive`, `StreamEnd`, `Stop` |
| `TurnGenerator` | what both generators share; extends `SseClient` | `out` holds the chunks before the next read, one `Yield` each; `held` is the upstream's response, open from `Connect` to the end of its `async with` block, whichever way that is left (`Released`); `LeaveTry`, `Disconnect`, `Save`, `SaveFails`, `AgentDone`, `Return` |
| `StreamProxy` | `stream_dify_events`; extends `TurnGenerator` | `ReadEvent`, `ReadData`, `ReadBlank` are the three branches over a line; `Over` ends the loop anywhere |
| `WorkflowProxy` | `stream_workflow_events`; extends `TurnGenerator` | `Translate` is the mapping of events; the lines come in any order and number, so an end may follow a failure; `failed` and `ended` are what the upstream has reported |
| `ChatTurn` | composition: `send_message` picks the generator of the app's mode, the browser reads either | `mode` selects whose `Proxy` step runs; the properties of a turn are stated here, once for both |
| `ChatStore` | `useChatStore`: the store, the callbacks of every stream started on it, flush timers, `resumeLatest`, and what `Chat.tsx` and `History.tsx` let the user click | one `Turn` per call of `sendMessage`; `phase` is where its `sendChatStream` is. `SendOn` is `sendMessage` up to the request, `Unauthorized`, `Accept`, `Refuse` its beginning, `Delta`, `ErrorEvent`, `AgentDone` the handlers, `Reject` the catch, `EndOfBody` the end of the body, with agent_done before it or not, and the fallback after it. `Finish` is `finish` with `stopFlushTimer`, `Show` and `Mark` are `patchAssistant`, which finds the message in whatever bucket it is. `due`, `left`, `alone` are history |
| `RefreshTokens` | server side of sessions | each request reads in one step, commits in another or loses the commit; `LogoutVoid` is the logout that finds nothing to revoke; the ghost variables `parent`, `root`, `tokenEra` record which rotation, login and password a token stems from, and `crossed`, `late`, `missed` which requests met |
| `BrowserSession` | tabs, cookie jar, lock; extends `RefreshTokens` | `SendRefresh`, `Refreshed`, `Refused`, `NetworkFails`, `Probed`, `ProbeFails` are the branches of the interceptor; `locks` is whether the browser has `navigator.locks`, chosen at the start; a response is on its way from the read on, before the commit |
| `Departments` | tree, paths, dept grants, dept_id | operations of administrators overlap: `MoveRead` checks, `MoveCascade` queries the descendants, `MoveCommit` writes what both have read (`NewPaths`; `Rest` is the tail of a path behind the old prefix); a deletion and a replacement of grants share the DELETE (`TakeGrants`); `stale` is history: the kinds of commits that were made over rows that had changed |
| `AccessControl` | abstract specification of rights: Ask, Act, Die, Restart | not code: rights change by requests of enabled administrators only, one user's standing at a time, and a restart takes nothing away |
| `Authorization` | users, roles, grants, the gate and what every start does to them | `Admit` is the gate, in a step of its own; `UpdateRead`/`UpdateCommit`, `AppsRead`/`AppsCommit`, `SetsRead`/`SetsCommit` are the full replacements, a DELETE of the rows its statement saw and the INSERT; `RoleCodes` is the fallback of `authz.py`, `RoleMap` with `ListedRoles` the list of users, which has none; `Start` is `init_db`'s transaction |
| `KnowledgeBase` | every write to the knowledge base | a call (`Serve` at Dify, `Receive`, `Lose`), then a local transaction: the DELETE that takes the rows it sees (`Delete`), the inserts and the commit (`Commit`), or `Fail`; `crossed` is history: the grants of which an addition and a removal overlapped there; `late` holds calls whose request has given up, which Dify may still carry out; `audit` is the sequence of audit rows, so that rows are told apart from their number |
| `Uploads` | files, rows, the sweep, the send with attachments | `Open`...`CommitRow` is `upload_chat_file`; `Sweep` has no await and is one step; `Ask`, `Forward`, `Refuse`, `Store` are `_resolve_files` and the part of `send_message` around it |
| `Schema` | the database's tables and revision | `Chain` lists what each revision makes, tables and indexes, in the order of its statements; a job walks the scripts of the revisions from first to last, statement by statement; `Boot`, `Fails`, `Fallback`, `Ends` are `_ensure_schema` and the start around it; `Deploy`, `UpgradeCommand`, `DowngradeCommand`, `StampCommand` the operator |
| `MC*` | instances for TLC (symmetry sets, small definitions) | |
| `*_proofs` | proofs | section 6 |

The faulty variants in each module (a dropped guard, a swapped order, a
missing reset) are the sensitivity checks: each property of a passing run has
one variant of a mapped definition with which TLC refutes it.

Abstractions: an answer is the number and channel of its pieces; an id, a
password, a path segment is a model value or a number; a Dify conversation is
named by the turn that opened it; a file is none, partly written or whole; a
table is its name, with its indexes and the one column that a later revision adds. Wording,
titles, names, timestamps and contents are left out. All checks of
`send_message` that write nothing are one action, `Refuse`. Messages are read
back by (`created_at`, id), the time their transaction began, and the log of
`ChatMirror` is in commit order: both put an answer behind its question, and
they differ for turns that overlap only.

## 3. Runs

| Run | Instance | Shows |
|---|---|---|
| `mirror` | 2 turns, 2 conversations, 2 pairs of user and app, 2 text frames, fairness | the log is a dialogue: no question lost, each answer once and behind its question; agent_done and every end of a generator behind the mirror; no row in a foreign conversation; message_count never overstates, and is exact where turns did not overlap; those turns stay in one Dify conversation; the usage is that of some turn of the conversation; streamed text is mirrored unless the save fails or the process dies |
| `turn` | a chat upstream of 3 frames or a workflow upstream of 5 lines, and a browser that may leave anywhere | shown in order and each piece in its panel; the mirror holds what was shown; a browser that is told the end has seen all of it, with the usage, unless the upstream tore a frame or names none; a failed run is an error, and an end or a usage comes from a run that was also reported as finished; `TurnStream` implemented, with a slack of one piece by the relay and none by the translation; the generator ends, has tried to save, has given its connection back, and the browser is told |
| `stream_claim` | 2 frames, 2 lines | violated: the conversation id of agent_done never reaches its handler |
| `store` | 2 turns, 2 apps, 1 piece each, bodies with agent_done and without, fairness | what is received is shown or buffered under a timer, an answer that is done shows all of it, and a turn that is over has no timer if it is done or was sent alone; the stop button reaches a turn that was sent alone; the end of such a turn does not move a user who has left it; an error card stays one; the composer opens again |
| `tokens` | 4 requests in any overlap, 3 tokens, 2 users, one reset each | one live token per login; reset and logout end the session; each but for the exceptions it names |
| `session` | 2 tabs, 3 refreshes, 4 tokens, with and without locks, failing probes | no tab whose probe is answered goes to login while the jar's token is good, with locks also while a rotation may carry the session on; a denied tab goes on or is sent to login |
| `depts` | 3 departments, 1 app, 1 user, 2 administrators at once | paths are chains, no cycle, no parent that is gone, no grant that outlives its department; each until a commit over rows that had changed, of the kind it names |
| `authz` | 2 users, each possibly an administrator, overlapping requests, 4 role ids, 2 updates, restarts | roles are those that were asked for; administrators are those whose last roles name it; nobody is locked out but by himself or by a request of one who had lost his standing; a new role inherits nothing; `AccessControl` implemented |
| `kb` | 3 administrators, 2 datasets, 1 document, 4 requests, lost and late answers, failed commits, crashes | no audit row without its change in Dify; no change in Dify without a row or a reported failure; the log accounts for the grants of departments and roles that were not added and removed at once |
| `kb_orphan_grants` | the same | violated: a deletion that ends behind Dify's answer, or is repeated, leaves the dataset's grants |
| `uploads` | 2 users, 2 files, 2 sends of up to 2 ids, 1 restart | a row names a whole file until the TTL has passed, a file without a row is an upload that runs or died; a stored question has each of its files once, its sender's own, read whole |
| `schema` | both dialects, 5 revisions, every release, 2 faults, 4 deployments or commands | what makes the schema leave its revision, and only that; no table is missing then, only a column or, on SQLite, an index; the backend comes up all the same |

`CHECK_DEADLOCK FALSE` stands where turns, requests and ids are bounded: when
they are used up the instance has nothing left to do. `authz` is checked for
deadlock: there the process can always stop or start.

The violations are disagreements between code and its own documents, quoted in
`PROJECT.json`.

## 4. What the code does that no property forbids

Conditions in the properties are there because TLC refutes them without.

*Overlapping requests.* Nothing in the code keeps requests apart, and no row is
read again at the commit. In the models they overlap without restriction, and a
property that overlaps can break names those that do:

- Two refreshes with one token both read it as unrevoked and both commit: one
  token, two heirs, two live sessions of one login (`crossed`;
  `docs/api-contract.md` says that the old token is void). `OneHeir` and
  `OneLivePerLogin` exclude these logins and no others. What is left of them is
  `RotatedIsRevoked`.
- A login or refresh that has read before `reset_password` and commits after it
  leaves a live token (`late`).
- A logout whose cookie holds a token that is already rotated, because the
  answer to the rotation was lost or is on its way, answers 200 and revokes
  nothing (`auth/service.py:50`): the heir lives on. The same holds of a token
  whose row is not committed yet (`missed`), and a rotation that read the token
  before the logout goes on behind it.
- Two moves both pass the cycle check and make two departments each other's
  parent; a department created under one that is being moved keeps the old
  path; one that is put under a department while it is deleted loses its
  parent; grants given during the deletion stay. `stale` has a name for each,
  and each property of the tree names those that concern it.
- The DELETE of a grant or a dataset is executed before the await of the commit
  that logs it (`kb/router.py:226-237`, `:140-146`): a grant that is added in
  between is there, although the log ends with its removal (`crossed`).
- `CountMatchesMessages` and `OneThread` exclude conversations that are
  `crossed`: two turns under way at once lose an update of `message_count`, and
  a turn loaded before its predecessor is mirrored opens a second Dify
  conversation. The `token_usage` of a conversation is then that of either.
- In `Authorization` two overlapping replacements of a user's roles leave the
  union (`mixed`).

*The browser's session.* A probe that fails, for whatever reason, counts as not
being logged in (`http.ts:43-47`) and sends a live session to the login page;
`KickedOnlyWhenDead` is about probes that are answered. `navigator.locks` needs
a secure context, and `deploy/DEPLOY.md:26` ships plain HTTP: there two tabs may
refresh at once, and a tab may be sent to login while the rotation of another,
which is answered later, carries the session on.

*Workflow runs.* `stream_workflow_events` reads on behind `workflow_finished`:
an upstream that reports a failure and then an end gives the browser both and
stores the usage. `FailureIsNoEnd` therefore traces every end to a finish. An
`error` event of Dify behind status 200 is skipped like any other, so the run
ends with whatever text it had and without an error.

*The wire.* `DoneMeansShown` holds unless the upstream tears a frame: then the
browser drops a piece that the mirror keeps. `UsageReported` holds of upstreams
that name their frames with event lines.

*The error card.* A connection that breaks with pieces in the buffer leaves half
an answer behind the error text: the catch puts the card in place first, then
`finish()` flushes the buffer onto it (`frontend/src/stores/chat.ts:298`).
`WholeShown` therefore says nothing of cards in error.

*A body without agent_done.* If the body ends cleanly before agent_done
(`sse.ts:167`; `portal.conf:29` turns chunked encoding off, so a backend that
dies may look like this), the fallback of `chat.ts:302` finishes the turn but
marks nothing: the message keeps its cursor. If meanwhile another turn's
`finish` has set the store idle, nothing is finished at all, and the flush
interval of the turn runs on for ever. `WholeShown` says that this befalls no
turn that was sent alone and none whose answer is marked done.

*The store.* `StopReaches`, `NotDraggedBack` and `ErrorStays` speak of turns that were
sent *alone*, when every earlier stream had settled (`ErrorStays` of follow-ups
as well). The cause is the code's: after
Stop the composer opens at once, so the next question can be sent before the
aborted `sendChatStream` has rejected; its catch then calls `finish()`, which
clears `streaming` and `abortController` of the new turn. The new turn cannot be
stopped any more, a third may be sent beside it, and the button for a new
conversation is enabled while it runs. With three turns TLC refutes
`ErrorStays` without its condition, against the comment of `chat.ts:283`: two
first turns share the draft bucket (`chat.ts:145`), the one that hears its id
takes the bucket along, and when the other, which shows an error, hears
agent_done, `onAgentDone` looks for its card under the old key, does not find
it and marks it done. The model reaches further states that nothing in the
repository forbids: a stop while the session is refreshed ends
in an error card instead of a partial answer (`sse.ts:120-126`); a stop behind
an error event marks the error card done (`chat.ts:296`); `finish` without an
id records the summary under whatever conversation is active, possibly of
another app (`chat.ts:226`); a retry while another stream runs removes the
error card and sends nothing (`chat.ts:312-320`); a late `resumeLatest` takes
the user away from where he is and replaces the messages of a running turn
(`chat.ts:110`).

*Rights.* Every restart grants the roles of the snapshot again
(`db/init.py:146`), although both `db/init.py:14` and `models/role.py:3` call
it a migration or history: a role that was deleted and created anew under its
code comes back to those who had it. App grants of role USER that an
administrator took away come back as well (`db/init.py:181`). `AccessControl`
says what a restart may do at most. A user without any row of `user_roles`
falls back to the snapshot in `authz.py` and not in the list of users, so
ordinary roles may be listed differently from `/api/auth/me`; of the
administrator's role `AdminsAreChosen` says that they agree. The platform may
lose its last administrator when he gives the role away himself. `dept_id` is
not looked up when a user is created or changed (`admin/service.py:161`), so a
user may belong to a department that is gone.

*Grants.* Deleting a department or a role leaves its dataset grants. On
PostgreSQL their ids are never given out again, which is why `NewRoleGivesNothing`
holds; on SQLite the id of the largest deleted row may be reused, which is the
faulty variant that refutes it. The list of datasets filters one page of Dify's
answer (the contract, v8, says so).

*The schema.* A database that is stamped `head` as `MIGRATIONS.md:24-28` says,
or left unstamped (`:31`), runs without `upload_files` or `messages.reasoning`
if it was made before them. An upgrade that fails for a moment is answered by
`create_all`, which makes tables that no revision records: every later upgrade
stops at the first of them. On SQLite a process killed between a table and the
indexes behind it loses these for good, unique ones too: the repeated upgrade
fails at the table, and `create_all` does not look into tables that are there.
`StraysByCauseOnly` says that nothing else does this, `LacksNoTable` what it
costs.

## 5. Bounds and fairness

- *Mirror.* Two overlapping turns exhibit every pairwise race (each step
  concerns one turn and one row). `MaxText = 2` lets text follow a disconnect's
  snapshot. All its safety properties are proved for any number of turns.
- *Turn.* `MaxFrames = 3`: a piece, what is inserted behind it and an end;
  `current_event` and `pending_event_line` are reset at each blank line, so a
  frame interacts with its neighbours only. `MaxLines = 5` is a text, an end
  and what follows either with their blank lines. The upstream may end, fail or
  be left at every line. All its safety properties and the refinement are
  proved for upstreams of any length.
- *Store.* Two turns: one and the one whose callbacks it meets; `MaxText = 1`:
  a piece is in the buffer, shown or lost. Two apps, so that the user can be
  elsewhere; the conversations he can resume are those the two turns open.
  Nobody clicks any more when both turns are over (`Unfinished`).
- *Tokens, session.* Three tokens: a login, its heir, and a fork or a second
  login; four requests, so that a login, two refreshes and a logout can be under
  way at once. `MaxEra = 1`: one reset, which the invariants compare with the
  login before. Two tabs race, for the lock or for the token, the third refresh
  meets the outcome. `FairSpecFromFirst` starts `session` from one token: the
  tokens are interchangeable, and symmetry sets are not sound for liveness. All
  safety properties are proved for any number.
- *Departments.* Three make a move of a subtree of two, a chain of three and two
  moves that cross; two administrators are what one overlap needs. Behaviours
  are followed up to the first commit over a path that had changed
  (`UntilPathStale`): behind it two of the three properties say nothing any
  more. That the third, `NothingDangles`, holds there too is proved, as are all
  three for any number.
- *Authorization.* Two users are one who acts and one acted upon, and can act on
  each other. Of four role ids two are seeded, whose keys the sequence meets
  first, and two can be created, so that one may follow a deleted one. Two
  updates are what one overlap needs; `CodeLists` are a request without
  roles, with one of each kind, and with both built-in ones.
- *Knowledge base.* Four requests: create, write, delete and one that overlaps
  or repeats; three administrators, so that they may all be under way at once.
  Two datasets tell a deletion's own grants from others. The three properties
  are proved for any number, also of overlapping local transactions.
- *Uploads.* Two files, so that something happens between the first and the
  second of a send; both properties are proved for any number.
- *Schema.* Two faults: one in a start and one in what answers it. Four chores:
  forward, back, forward again, and a command. The two invariants are proved for
  any number of both.
- *Fairness.* Mirror: an open stream ends (Dify closes it or httpx times out,
  `backend/app/dify/client.py`) and a generator in `finally` is run on, since
  the save is shielded. Turn: reads end for the same reason, Starlette pulls
  the generator and watches for the disconnect, the browser reads what has
  arrived. Store: every started call of `sendChatStream` settles, because the
  response ends (`TurnSettles`), fails, or is aborted. Session: axios requests
  are answered or fail; a tab that waits for the lock gets it. Schema: compose
  starts the container again (`restart: unless-stopped`) and statements that
  run come to an end. No fairness is assumed of users, administrators,
  operators, commits that may fail, or of the upstream sending anything in
  particular.
- `AccessExpires` happens only while no refresh is under way: 15 minutes
  against seconds. `Age` concerns files nobody writes to: days against seconds.

## 6. Proofs

TLAPS checks these for every value of the constants, that is for any number of
turns, conversations, users, tokens, departments, files and requests, from the
named assumptions on the constants only. In each module every action preserves
the inductive invariant by a lemma of its own, one theorem puts them together,
and the properties are corollaries.

`SerialTurns_proofs`, of every turn (overlapping or not): types and the safety properties of
`ChatMirror`. None of them is inductive alone: that an answer is stored once
needs to know that a turn that has not been saved has no answer row, that
`message_count` is a lower bound needs to know that what an open session counted
is at most what is there now. `MirrorInv` adds exactly that: `Located` (a turn
in progress has its conversation), `RowsOfTurns` (a row is the question of a
turn that has asked or the answer of one that is saved, in that turn's
conversation), `SnapshotsAreOld` (a count that was read is not greater than the
log) and `Ownership` (an uncommitted row is seen by one turn).

The same module, of conversations that were never crossed: exact counts and
the one Dify conversation. `SerialInv` adds to `MirrorInv` that
meetings are `Recorded`, that a conversation of unfinished first turns has
nothing yet, and `ReadsAreCurrent`: what a turn in flight has read is the row
as it is, which is what a second turn would break. `OnlyHistory` shows that a
behaviour of `SerialSpec` is one of `Spec`, so that everything proved of
`ChatMirror` holds of it.

`ChatTurn_proofs`: the four safety properties of a streamed turn and the
refinement of `TurnStream`, for upstreams of any length that fail, tear a frame
or are left anywhere. `SeenInOrder` compares the two ends of a wire, and a step
in the middle of it needs to know what the wire carries. `TurnInv` says so: the
browser's last line, the lines it has not read and the chunks the generator has
still to yield make one `Stream`. It is `Lively` until the browser comes to the
frames the generator ends with: frame by frame it `Carries` exactly the pieces
that are accumulated and not yet shown, and behind them there is nothing but
those frames (`EndsOwn`). From then on it is `Calm`: what was shown and told is
final, but for the error and agent_done themselves. With it go `ReaderStands`
(what the generator holds of the frame it is in), `SaveStands` (what is stored,
and when), `DoneStands` (agent_done is on its way behind the save only) and the
types. The refinement (`TurnImplementsStream`) goes by kinds of step: reading a
line makes pieces (`ReadRefines`), a dispatched frame shows one or tells the end
(`DispatchRefines`), the save keeps (`SaveRefines`), and the rest stutters. Its
slack of one is the piece of a frame that the upstream tears: the relay has
accumulated it and the browser drops it. That the value of "nothing kept" is not
itself a mirror is an assumption (`NotKeptAssumption`).

`KnowledgeBase_proofs`: the three properties of the audit log. That each row has
its change, and each change its row, is a statement about numbers: a request may
be repeated with the same arguments, and both may be carried out. `LogInv`
therefore weighs for each call the rows of the log and the request that is about
to write one against the times Dify has carried it out (`Backed`), and those
times, with the calls that may still be carried out late, against rows,
requests and reported failures (`Told`). Neither could follow the answer on its
way from Dify to the log without the request that holds it. `GrantsAccounted` is
inductive with the types: additions and removals of a grant alternate in the
log, and the grant is there while the last of them `Stands`. For a grant that
was never added and removed at once the rows that an executed DELETE holds are
still all there are at its commit (`TookAll`).

`ChatStore_proofs`: types, `WholeShown`, `StopReaches`, `NotDraggedBack` and
`ErrorStays`. `StoreInv` follows
the text of a turn: while it is read, and as long as a timer runs, what is shown
and what is buffered is what was received, unless the message has vanished from
every bucket (`Text`); an error sets both to nothing, and the stream may go on
behind it. `finish` may be called by one turn for another's controller, but only
flushes its own buffer, so what is shown needs no condition on the user. That a
timer stops does: `NoLeak` says that a turn that was sent alone leaves none, and
rests on `AloneInv`. `AloneInv` says of a
turn that was sent alone, runs and is not stopped, that the store is busy with
it and that every other turn is unsent or settled: no `finish` but its own can
be called, and `sendMessage` refuses until it is over. The two action
properties rest on it. `LeftInv`: who leaves a turn that holds the store goes to
a conversation, because the selection of an app is closed to him, so `adopt`
does not find him where he was. `SeatInv`: the message of a follow-up, and of a
first turn that holds the store, is in the bucket it was put in or nowhere, so
`onAgentDone` finds the card it must not overwrite; of other first turns this is
false (section 4). `OnlyDoneTells` says that nothing but `AgentDone` tells.

`BrowserSession_proofs`, of the server, whatever overlaps. `TokensInv`: a row
descends from a login that has a row, what an open request has read is still
there, the token it drew is its own. So a rotated token is revoked for ever and
its heirs stay with its user and login. `SessionInv` adds what becomes of a
login: a token in force, or about to be issued, goes back to the password in
force (`ErasMatch`); one token of a login is in force, and if one is being
rotated it is that one (`OneInForce`, `RotatesTheOne`, `NoHeirYet`); a revoked
token without an heir is where its login ends (`DeadEnd`), and a logout leaves
one (`LoggedOut`). Each part excepts the logins that `crossed`, `late` or
`missed` name, and no step enlarges the exception but the overlap itself. From
it follow `OneHeir`, `OneLivePerLogin`, `ResetEndsSessions` and
`LogoutEndsSession`. The invariant speaks of "in force" (not revoked) instead of
"live" (not expired either), because a token may expire between the read and the
commit of its rotation.

The same module, of the browser: types, and `KickedOnlyWhenDead`. `FairInv`
holds with and without locks: a refresh carries the jar's token or the jar has
been renewed since (`JarSent`), the jar's token has been drawn (`JarKnown`), and
when a refresh is refused or a tab probes, the access token is good or the jar's
refresh token is dead (`RefusedIsDead`, `ProbesAreFair`). With locks, `LockInv`
adds that one tab at a time refreshes and that no rotation is under way while a
tab probes.

`Departments_proofs`, whatever overlaps: types and the three properties of the
tree. `TreeInv`: until a commit over a changed path, paths end in their
department (`Ends`), are chains (`Chain`) and the tree is a `Forest`; they need
each other, since the cycle check reads paths. `NothingDangles` needs none of
them. Other operations may come between the read and the commit of a move, as
long as what it read still stands when it commits (`MoveStands`); then its two
reads count as one (`MoveIsWhole`). The move rests on lemmas about paths as
sequences: being under a department survives appending (`UnderAppend`), and the
rest of a child's path is its parent's rest and the child (`RestOfChild`).

`Authorization_proofs`, for overlapping requests: types, `RolesAreAsked`,
`AdminsAreChosen`, `NewRoleGivesNothing`, `LockedOutOnlyBySelf`, and the
refinement `AccessIsRefined`: every step of `Authorization` is one of
`AccessControl` or a stutter. `AuthInv` joins `TypeOK`, `JobTypes`, `RolesStand`
(the built-in roles are there and codes are unique), `IdsGivenOut` (a free id
has no members and no app grants, and one that was not given out has no dataset
grants either), `RowsOfUsers`, `UpdatesInProgress` (what a request holds between
its read and its commit fits what its user has now) and `OthersDisable` (nobody
is disabling himself).

`Storage_proofs`, of what outlives the backend. Of the attachments: both
properties. `FilesInv` ties each row to the phase of its upload; `SendsInv` says
of a send in progress what `SendWhole` says of a question.

The same module, of the schema: `StraysByCauseOnly` and `LacksNoTable`, for
any number of faults, deployments and commands. Both speak only of moments at
which no command runs; `SchemaInv` says what holds in between. `SchemaTypes`
with `JobStands`: the revision recorded is always the one before the script that
is being run. `InStep`, while nothing has strayed: an upgrade has made exactly
the revisions behind it and the statements it has passed (`Made`), a downgrade
has left exactly what is still to be dropped (`Unmade`). `AtLeast`, while no
revision was recorded falsely: the same with "at least", and of `create_all`
that every table it has passed is there. `Together`, of PostgreSQL: between
transactions a table has its indexes. That an upgrade of a sound schema never
fails by itself (`FailsOnStrayed`) is what keeps `StatementFails` from being a
cause of its own; it rests on `MadeOnce` and `Ahead`, by which no revision makes
what another has made and a column or an index comes after its table. The five revisions
are the repository's, not a parameter.

## 7. Only model-checked

Liveness (`TextGetsMirrored`, `TurnSettles`, `ComposerOpens`, `TabSettles`,
`ComesUp`): the prover has no rule for fairness or ENABLED here. Every invariant,
action property and refinement of the passing runs is also a theorem. No module
declares a RECURSIVE operator.

## 8. Not modelled

- *Conversations* (`backend/app/conversations`) and *apps catalogue*
  (`backend/app/apps`): reads only. No code sets `deleted_at`, so the checks of
  it never refuse anything; who sees which app is `Authorization.VisibleApps`.
- *Configuration, middleware, request and response schemas*: no state between
  requests; shapes are validated before a handler runs, and the modules take
  well-formed inputs.
- *Pages, components, REST wrappers, login state* of the frontend: rendering,
  forms, one HTTP call each, one flag set from `/api/auth/me`. What they let the
  user click on the chat store is in `ChatStore`.
- *Mock server, deployment scripts, documents and their generators, skills*:
  test doubles, build steps and documents. They keep no state that operations
  could bring out of order; they are more than half of the Python in the
  repository.
- *Dify client*, in part: listing and retrieval pass answers on and keep
  nothing here.
- Password hashing and JWT encoding are replaced by fresh values.

## 9. Plan

1. Composition of `ChatStore` with `ChatTurn`: what the mirror keeps is what the
   message shows, and what a retry then finds in the mirror.
2. Composition of `Departments` with `Authorization`: what a user sees while his
   department is moved or deleted.
