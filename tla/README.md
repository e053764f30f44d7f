# Verification of the JPush server

The program in `src/` moves push requests from a redis list to the JPush web
service and notes each of them in a mysql table.  Applications append
comma-separated records to the list; the server takes them off, builds a
request from each, sends it with libcurl and inserts a row.  The repository
carries the libraries it uses for this: a redis client (`redisclient.h`,
`anet.c`), a JSON library (`parson.c`) and classes around libmysqlclient.

This directory holds TLA+ modules of the program, TLC configurations that
check them on small instances, and TLAPS proofs.  `PROJECT.json` lists the
runs, the theorems, the hazards, the source lines behind every definition,
and for each property a fault in the model that the property notices.

## 1. Inventory

| part | source | state | operations |
|---|---|---|---|
| event loop | `event_drive.cpp` `event_run` | local loop state, `pool_handle`, `p_file`, the redis connection `rHandle` | connect, start the pool task, loop: read a record, sleep when there is none |
| record decoding | `event_drive.cpp` `get_data_redis`, `files.cpp` `is_data_ok`, `config_value`, `consist_cmd_data` | none beyond the call | exists, lpop, cut, check, build a command, store it |
| record splitting | `files.cpp` `string_filter` | `front`, `back`, `temp`, `res` | one loop |
| command queue | `files.cpp` `store_cmd_data`, `get_value`, `del_cmd_head` | `cmd_head`, `g_mutex`, `g_sem_full`, `g_sem_empty` | store, fetch |
| thread pool | `pthread_handle.cpp` | `event_list`, `queue_lock`, `queue_ready`, `shutdown`, the threads | init, add, run, destroy |
| worker | `event_drive.cpp` `func_routine`, `data_push`, `store_data_msql` | `argTemp`, `fail_try` | fetch, push with repetitions, insert a row |
| configuration | `files.cpp` `read_config`, `init_data`, `config_value`; `event_drive.cpp` `event_init` | the settings in `jpush_arg`, the static copy `p_file` | read once |
| request building | `event_drive.cpp` `consist_push_data`, `consist_mysql_data`, `files.cpp` `serialization_to_json` | none | the form, its JSON part, the signature, the row |
| mysql connections | `DbPool.cpp` | a list, a semaphore, a mutex | create, get, release, destroy |
| mysql access | `DbConnect.cpp`, `DbRecordset.cpp` | one handle, one result set | connect, transaction, insert, commit, rollback, locks, queries |
| redis client | `redisclient.h`, `anet.c` | `connections_`: server, socket, database of each; bytes under way | about a hundred calls: one request and reply, several pipelined, or scripts over several servers |
| JSON library | `parson.c` | documents, the memory they own | parse, serialize, get, set, remove, copy |
| logging, `strtok.cpp` | `get_current_time`; an experiment outside of the build | | |

**How they interact.**  `event_run` connects to redis and adds one task,
`func_routine`, to the pool.  From then on two threads are active.  The *main
thread* calls `get_data_redis` for ever: `exists`, `lpop`, checks,
`store_cmd_data`.  The *worker* loops in `func_routine`: `get_value`,
`data_push`, `store_data_msql`.  What one of them hands to the other goes through
the command queue: a full queue blocks the main thread, an empty one the worker.
Both also log: `get_current_time` assigns the member `cur_time` and the static
buffer of `localtime`, and the log lines go to the same streams, all without a
lock.  The settings (`p_file`) they only read.  Redis, the push
service and mysql are other processes, reached by calls that may fail.  The
redis client and the JSON library are called from one thread each; what makes
them hard is what comes through the socket and what the texts contain.

**What is hard.**

- the queue is bounded by two semaphores, each operation consists of five
  blocking or atomic calls, and `get_value` pops without a test;
- the pool runs a task while it holds the lock of its list, signals after it
  has unlocked, and sets `shutdown` without the lock;
- `exists` and `lpop` are two calls; the list may be empty at the second one;
- the connection may be lost at either call, which the code treats differently;
- an answer of the push service may be lost after the request has arrived;
- the pushed record, the queue and the record just taken exist in memory only;
- records, fields and rows are copied into buffers of 1024, 256 and 1024 bytes
  without a test of their length;
- texts of a record are put into the form and into the sql statement without
  escapes, and into log lines as the format of `printf`;
- `at()` is used on a vector whose length depends on the record, and the values
  of a command are paired with their keys by position after fields were
  replaced and appended;
- `switch` statements whose last case lacks a `break`;
- the loop of `string_filter` ends by an equality test on a pointer;
- settings without a line in the file keep what the memory held, a number
  wider than an `int` is cut, and so is a text that `iconv` refuses;
- the pool of connections is created and destroyed without its lock, and its
  list and its semaphore are reset separately;
- no statement sent to mysql reports an error to its caller, whether mysql
  refuses it or the connection is lost in the middle of a transaction, and a
  connection may be returned with a transaction open;
- a redis reply arrives in pieces and with the next one behind it, payloads may
  look like protocol text, and a call that throws leaves the rest unread;
- calls on keys of several servers are made of several commands, which other
  clients and lost connections come between;
- the JSON library keeps a count next to each array, fails in the middle of
  calls that already allocated, and must read back whatever it writes.

**What makes each part correct.**

- *command queue*: no slot and no command is lost or invented, a pop finds a
  command, one thread at a time is at the list; seen from outside it is a
  bounded FIFO, and someone who can be served is.
- *thread pool*: tasks that were added get started, no wakeup is lost, tasks
  are serial, objects are freed once and after the last use, destruction ends.
- *record path*: the splitting ends, does not leave the text, and gives the
  fields of the text; exactly the right records become commands; request and
  row tell what the record says and agree with each other, as long as no text
  is taken for a part of the form or the statement.
- *server*: rows and requests in the order of the records, bounded repetition,
  bounded loss at a crash, no record left unsettled.
- *configuration*: the last line for a keyword counts, nothing is sent that no
  line sets, a proper file makes the server accept records.
- *mysql connections*: a connection is with one user or in the list once,
  permits and list agree, a deleted connection is out of reach; rows that
  belong together are stored together.
- *redis client*: the server reads what the call meant, the call gets what the
  server answered to it, every call ends; several servers act as one.
- *JSON library*: what is written can be read and means the same, strings are
  valid, a call changes what it names and nothing else, memory is accounted for.

The full list of hazards, with lines, is in `PROJECT.json` under `hazards`.

## 2. Modules

| module | models | builds on |
|---|---|---|
| `BoundedQueue` | abstract: what the command queue promises | |
| `CmdFifo` | `store_cmd_data`, `get_value` call by call | refines `BoundedQueue` |
| `PthreadHandle` | `thread_run`, `pool_event_add`, `pool_destroy` | |
| `StringFilter` | `string_filter` | |
| `RedisRecord` | the checks of `get_data_redis`, `is_data_ok` | |
| `RecordPath` | a record from its text to the request and the row | composes `StringFilter` and `RedisRecord` with `consist_push_data`, `serialization_to_json`, `consist_mysql_data` |
| `PushService` | abstract: what the server promises | |
| `EventHandle` | main thread, worker, redis list, connection, service, table | composes `BoundedQueue`, `RedisRecord`; refines `PushService` |
| `ConfigFile` | `read_config`, `config_value`, `init_data`, the use of the settings in `event_init` and `consist_push_data` | uses `RedisRecord` |
| `DbPool` | the pool of mysql connections, `ensure_connected` | |
| `DbSession` | what users do with the connections they get, and what mysql makes of it | composes `DbPool` with transactions |
| `RedisCommands` | tables: verb, arguments, reader and result of each call of the redis client | |
| `RedisSession` | one connection of the redis client, byte by byte | `RedisCommands` |
| `RedisServer` | external: what a redis server does with a command | |
| `RedisCluster` | several connections, calls on several keys or servers | `RedisServer` |
| `Utf8`, `JsonValue`, `JsonText` | `parson.c`: UTF-8 and `\u` escapes; values and the functions on them; parser, comments, serializer | each on the one before |
| `JsonDocument` | a client of `parson.c` that reads and changes a document | `JsonText` |
| `ProofLemmas` | lemmas: how many threads are at a label; the least of a set of numbers, and functions defined by recursion on a number; cutting, joining and flattening sequences; the elements of sequences and of finite sets, in order | |
| `..._proof` | theorems about the module they are named after; `EventHandle_proof` ends with the refinement of `PushService` | that module, `TLAPS` |
| `MC...` | instances and reference definitions for TLC | the module they are named after |

Each module begins with a comment on what it stands for.  A definition whose
name has a suffix after `_` (for example `GetPop_Back`) is a *faulty variant*
of the definition below it.  It is no part of the specification; it documents
a slip that a property of the module catches.

### Correspondence with the code

`CmdFifo`: `pc[t]` names the call thread `t` makes next, in the order of the
source: `sem_wait`, `pthread_mutex_lock`, the access to the list,
`pthread_mutex_unlock`, `sem_post`.  Nothing else is merged or split.
`p_cmd[p]` is the parameter of `store_cmd_data`, `temp[c]` the result parameter
of `get_value`.  `NUM_MAX` is 1280 in the source and any positive number in the
model.

`PthreadHandle`: `wpc`, `apc` and `opc` are the positions of the workers, of the
callers of `pool_event_add`, and of the caller of `pool_destroy`.  Waiting on
the condition variable is two steps (giving the lock back and falling asleep in
one; taking it again), with spurious wakeups, as POSIX describes it.  `shutdown`
is read and written without the lock, as in the source.  Adding tasks while the
pool is being destroyed is excluded by the guard of `AddCall`: the program does
both from one thread.

`StringFilter`: `front` is the pointer, as a position; the actions are the paths
through the loop body.  `res` is the result vector.  A field that does not fit
into `temp`, of `FieldSize` bytes, leads to `Overrun`: what the program does then
is undefined, and the model goes no further.

`RedisRecord`: a record is its number of fields and the fields the tests look
at.  `Throws`, `Stores` and `Outcome` state what the sequence of tests amounts
to.  `Warnings` is the second `switch`; `Field5` reflects that the marker
`"warnning_type"` is appended before field 5 is read.

`RecordPath`: a text is a sequence of characters; literals of the program count
as one.  `CopyOverruns` is a record that does not fit into `strTemp`.  `Decode`
takes what `string_filter` has left in `res`, asks `RedisRecord` for the outcome
and pairs `Values` with `string_key` by position, as the code does.  `strtol`
skips blanks, takes a sign and digits, gives 0 without digits, and stops at the
largest and the smallest `long`.  `Form` is the list of parameters as a function
of their names, `MsgContent` the JSON object (a text that is not UTF-8 is silently
not set), `RowValues` the values of the insert in the order of `Columns`.  The code
writes both by concatenation without escapes, so `Form` is what the service reads
only if no text has a character that means something in a form (`FormPlain`), and
`Row` what mysql reads only without quotes and backslashes (`RowPlain`); with such
a character the service may read something else, and the row is refused or is
another one.  A `%` in what is logged (`Logs`) and a row that exceeds `sql`
(`RowFits`) may have any outcome: `pc` is then `"undefined"`.  MD5 stands for
itself.

`EventHandle`: `main` and `worker` name what each thread does next.  `redis` is
the list, `link` the state of the connection, `delivered` and `rows` are the
requests that arrived at the push service and the rows of the table.  One
`curl_easy_perform` is one action with two outcomes (what the caller is told,
and whether the request arrived); one insert is one action that may fail.
`Die` is the end of the process by an uncaught exception, a signal, or whatever
follows a write over the end of a buffer; it is a part of the actions that cause
it: `ExistsKilled`, `LpopFails` (the connection is lost, or redis answers with an
error), `LpopReplyLost`, `DecodeThrows`, `DecodeOverruns`, `InsertDies` (a log line,
or the buffer of the statement, before or after the row is stored) and
`LogsCollide`.  `Overlong` and `Unprintable` are the kinds of records that cause
the last ones; they may also do no harm.  `Restart` is an operator starting the
program again.  The queue is the abstract one; `CmdFifo` is
what justifies that.  That only one worker runs `func_routine` is what
`PthreadHandle` shows (`TasksSerial`, and the finding on `thread_num`).

`ConfigFile`: `setting` is the content of `p_temp` and `run_arg` while the file
is read, `p_file` the static copy that remains.  Every `fgets` is a step; a line
longer than its buffer is a line of several pieces.  Of a piece the model has
where its first `#` is, in front of the keyword or behind the value (`mark`), the
value, and what `code_convert` leaves of it (`kept`), which is the same, less, or
anything.  `Memory` is what the members contain that no constructor sets:
one arbitrary `int`.  `ToInt` is the assignment of the `long` of `strtol` to an
`int` that holds `-IntHalf..IntHalf-1`.  `Launch` is `event_init`; `Served` asks `RedisRecord`
what becomes of a complete record under the settings.

`DbPool`: `pc[u]` is the next call of user `u` within `get_connect` or
`release_connect`, `conn[u]` the connection it has.  `create_pool` and
`destroy_pool` take no lock, so they are one step each, taken while no user is
past `sem_wait` in `get_connect` or inside of `release_connect`; `GetInterrupted` is
a `sem_wait` that a signal ends, after which `get_connect` returns `NULL`; no caller exists
in the program, and with other callers the list itself would be raced for.
`link[c]` is the life of one `DbConnect` object.  `stale` is a ghost variable:
the permits that `destroy_pool` left in the semaphore.

`DbSession`: each user has one unit of two rows between `transaction()` and
`commit()` or `rollback()`; `unit[u]` says how far it is.  `open`, `pending` and
`table` are the server's: which connection has a transaction, the rows in it,
the rows everybody sees.  A call on a lost connection changes nothing and says
nothing; neither does one that mysql refuses on a connection that is up
(`TransactionRefused`, `InsertRefused`; `Rollback` is also a refused commit), except
that a refused row may undo the whole transaction, after which the next row is
in none.  `PoolStep` is a step of `DbPool`; a connection that is lost or closed
loses its transaction (`Undone`).  `excused` is a ghost variable: users that
released the connection in their unit, renewed it with `unlock_table`, or had a
statement refused.

`RedisSession`: `unsent` is the rest of the buffer in `anetWrite`; `asked` what
the server has got; `wire` what is under way to the client, `sock` what `recv`
finds.  `rd` is the reader in progress: the line `read_line` has so far, what
`read_n` still wants, the elements of a multi bulk.  `todo` are the readers the
call has still to run.  Payloads contain line ends.  An error reply begins with
`ERR ` or with another code of any length; the first four characters of its text
are a symbol of their own, because the generic reader cuts them with the `-`.
`Long` is a number that a `long` holds and an `int` does not, `ToInt` what is left
of it.  `owed`, `took` and
`slipped` are ghosts: the replies nobody has read, those this call was given,
and whether some call gave up before it had read its own.

`RedisCluster`: a call is planned as rounds, each of which sends commands to
sockets and then reads replies; `Plan` is the body of the call, given the
replies so far.  `peer`, `db` and `multi` are what the servers know of each
socket.  `Disturb` is another client, `Lose` a connection that breaks; `MaxCalls`
and `MaxLost` bound how many calls are made and how many connections break.
`disturbed`, `slipped`, `failed` and `before` are ghosts.  `select(dbindex, con)`
finds `con` in the list by host, port and database; no server is in the list
twice (`DistinctAssumption`), so that is the socket of `con`.

`JsonValue`, `JsonText`: values are records, operators return the value, whether
the call succeeded, and the difference of memory blocks; a position in the text
is passed along instead of the moving pointer.  A text that is refused comes with
the place in the parser that refuses it (`why`) and the value that was under
construction there.  Bytes are numbers, so UTF-8 and
escapes are decoded as in the code.  `JsonDocument` has one action per function
that changes a document; `live` counts the blocks, `last` is the call with its
arguments and its result.

## 3. Runs

| run | question | instance |
|---|---|---|
| `fifo` | do semaphores, mutex and list always agree, is it a bounded FIFO, is someone who can be served served? | 2 producers, 2 consumers, 2 commands, capacity 2 |
| `pool` | serial tasks, no lost wakeup, freed once and late; are tasks started, does `pool_destroy` return? | 3 workers, 2 adders, 3 tasks (1 endless), 2 calls of `pool_destroy` |
| `pool_server` | do several threads serve? (they do not) | 2 workers, `func_routine` |
| `record` | which records are served; do request and row agree with the text? | every text of up to 6 characters over 3, and records of 1 to 8 fields with all values the tests tell apart, numbers with blanks, signs and too many digits, characters that mean something elsewhere; fields, records and rows that exceed their buffers (6, 19 and 12 characters) |
| `record_types` | are send type 1 and warning type 100 served? (they are not) | the same |
| `server_faults` | order, repetition, loss, with everything going wrong | 4 records of 3 kinds, one of them overlong and one unprintable, capacity 1, 1 lost connection, 1 restart, error replies, another consumer, colliding loggers |
| `server_calm` | is every record settled when nothing goes wrong? | 3 records of 2 kinds, capacity 1 |
| `config` | what do the settings end up as, and is a record served with them? | files of up to 3 lines, masked ones and long ones, values that are cut, `int` of 4 bits |
| `db` | is a connection in one place, do permits match, are units whole, is someone served? | 2 users, a pool of 1 connection, created up to twice; refused statements, interrupted waits |
| `redis_session` | does every call get its own answer, whole, however bytes arrive? | every call of the tables, every pipeline, 2 payloads, 2 kinds of errors, and a late call on what a failed one left |
| `redis_cluster` | do several servers act as one; what do crashes in between leave? | 2 servers, 3 keys, 9 contents, 2 calls one after the other, 1 lost connection, 1 disturbance |
| `json` | is what is written readable; do calls keep to their names; who owns the memory? | 12 texts, 3 with comments, 4 names, 5 scalars, 3 calls, nesting up to 3 |

**Why the bounds are enough.**  In the queue, two threads on each side and two
slots reach every relation of the counters: full, empty, a slot reserved and
not filled, a command claimed and not popped, and contention for the mutex
within a side and across.  Distinguishable commands matter for the order only,
and two are needed to tell an order.  In the pool, the third worker allows a
signal to reach a worker that finds nothing while another sleeps; the second
adder allows two signals for two tasks; the second call of `pool_destroy` is the
one from the destructor.  Six characters hold three fields with empty ones
first, in the middle and last, and a last field of one character and of two;
eight fields are more than the largest number any test asks for.  The buffers hold
what the longest ordinary record of the instance needs, and there are records of one
character more, so that both sides of each limit occur; `LongMax` is 1000, and
1001 is among the numbers.  In the server,
four records and a capacity of one fill every place a record can be in: with the
worker, in the queue, with the main thread, and still in redis; one loss of the
connection and one restart show what an end of the process loses and what stays;
each cause of an end can come at every moment it has in the code.
Three lines hold a setting, its repetition and another one between them, in
every order, and so the long comment, the long remark and a value that is cut before,
between and after them; four bits
show the wrap to negative numbers and past zero.  Two users compete for one
connection; two connections are two generations of a pool, the second of them
created while the first is in use; safety for any number is proved
(section 5).  In `redis_session` segments of three bytes and a peek of three cut
a line before, in and after its line end; one call shows the stream whole, and
a second one what a first one left.  Two servers and three keys hold both keys
on the same server and on different ones, in both orders.  The tables of the
JSON library double once and reach their limit with two members; three calls
make a document, change it and change it again.  The bounds are
`MaxRecords`, `MaxDrops`, `MaxRestarts`, `MaxDestroys`, `MaxLen`, `IntHalf`,
`Lengths`, `MaxCalls`, `MaxSocket`, `LateCalls`, `LaterCalls`, `FieldSize`, `TextSize`,
`SqlSize`, `LongMax` and the number of `Conns`; the guards that use them say so.

**Symmetry** is not used: every run that is large has temporal properties, for
which it is not sound.

**Deadlock** is checked in `fifo` (consumers never stop), in `server_calm` and
wherever the configuration does not say otherwise.  It is off where the system
may stop: all tasks done and all workers asleep or exited, a record that is
judged, a process that died and may not be restarted again, a configuration that
is read, users that no longer ask for a connection, calls that are used up.

**Fairness.**  Every fairness condition is weak fairness of one thread: a thread
that can run does run.  `sem_wait`, `pthread_mutex_lock` and
`pthread_cond_wait` are fair to no particular thread, hence no strong fairness
and no promise about a particular one.  A consumer calls again, because
`func_routine` is an endless loop; a producer need not.  `FinishTask` is fair
for tasks that are not endless.  Users of a mysql connection finish their calls
and return what they got (`PoolStep`), but need not ask.  In `EventHandle` the
two threads are fair, which includes that redis, curl and mysql return in the
end, with or without success.  In the redis modules the client runs, a server
answers what it was asked and bytes arrive; a server that is told to shut down
closes its connections.  The failures and the surroundings are never forced.

**What is shown.**

- The queue keeps its slots and its commands, is a FIFO, and makes progress.
- The pool loses no task by its late signal.  `pool_destroy` returns if no
  worker is between its test of `shutdown` and its wait when the broadcast
  comes.  Without this condition it may not: a worker tests `shutdown`, the
  owner sets it and broadcasts (it does not need the lock), the worker starts
  to wait, and `pthread_join` waits for it for ever.  `DestroyEnds` is stated
  with the condition, and also excepts a task that never returns.
- `string_filter` ends on every text and returns its fields, but drops what
  begins at the last character of the text (`"a,b,c"` gives `a`, `b`), and an
  empty field after a trailing `",,"`.  This, and what follows, is about records
  of less than 1024 bytes with fields of less than 256; behind these limits the
  program writes over the end of `strTemp` and `temp`.
- A record of exactly six visible fields, for android, with a known receiver and
  warning type is served, and no other.  The warning type is read with `strtol`:
  `" 1"`, `"+1"` and `"1x"` are 1, `"-1"` is not served, and a text that is no number
  is type 0 and served.  `at()` ends the process for no record of five fields or
  more; for a shorter one it may, and so it does for a list emptied between `exists`
  and `lpop`.
- The request of a served record goes to its receiver and is signed for it, the
  content is that of field 6 and never the marker `"warnning_type"`, as long as
  no text in it has one of `& = % +`.  The row tells the same as long as no text
  in it has a quote or a backslash; with one, the request is out and the row is
  missing or says something else.  A content that is not UTF-8 is missing in the
  request and present in the row; a title is sent only with warning types that
  have a content.
- After the checks, a record can still lead to undefined behaviour: its row may
  exceed `sql`, and a `%` in a text of the row or in the `app_key` becomes a part
  of the format of a log line.
- Whatever fails, rows come in order and once, requests come in order and at
  most four times each, and an end of the process loses at most `NUM_MAX + 2`
  accepted records.  The record popped by an `lpop` whose reply is lost is
  gone as well.
- The process ends, while it has memory, only where something that `EndHasCause`
  names is around: too short a record, another consumer of the list, a lost
  connection, an error reply to `lpop`, a record that exceeds a buffer, a `%` in what
  is logged, two threads in the logger.
- When redis stays reachable, nobody else pops, and no record ends the process,
  every record is settled.  When the connection is lost at `exists`, nothing
  reconnects: the call is repeated on the same connection, and the liveness
  property excepts this case.
- The last setting of a keyword counts; a request has no optional field that no
  line asked for, because `init_data` presets exactly those two to -1; a file with
  `sendno`, `app_key` and `msg_type` in range makes the server accept records.
  All of this is said of keywords whose text survives `code_convert`, and which
  do not stand in masked text behind the 255th character of a line: the rest of
  a line that long counts as a line of its own, and can set what `#` was to mask.
- A connection of `DbPool` is in one place, whatever is destroyed and created in
  between.  Permits and list agree except for the permits that `destroy_pool`
  leaves: after it a waiting `get_connect` may pass `sem_wait` and read the front
  of an empty list.  `PermitsServed` says that this is the only way there.
- A unit of rows is stored whole or not at all, although nobody sees that a
  connection is lost: just because nothing reconnects in the middle, the rest of
  a unit fails as well.  The exceptions are a user that released the connection
  with a transaction open, which the next user's `start transaction` commits;
  one that called `unlock_table`, the one call that reconnects; and one of whose
  statements mysql refused the begin or a row, which `commit` does not notice: it
  stores the other row, and after a deadlock a later row is in no transaction.
- A call on one redis connection reads its own reply, entire, for every cut of
  the bytes and with line ends in payloads.  `exec` and `exec_transaction` change
  two answers: an error loses the first four characters of its text, whether these
  are `ERR ` or not, and a number that exceeds an `int` is cut.  Only the pipelined calls (`msetex`,
  `sadd` of a range, `exec`) leave replies behind when they throw in between;
  then the next call takes them for its own.  Some calls throw although the
  server did as told (`Picky`), because they expect an integer 1 or `OK`.
- Two servers act as one for every call that returns and is left alone, with the
  exceptions that the properties name: `rename` of a missing key between servers
  returns, and `renamenx` claims success.  `rename` never loses the value,
  `smove` never doubles the member, though it may lose it.  `mset` of two
  vectors and `sdiff` throw when their keys are on several servers, without an
  effect.  All of this leaves out calls made after one that gave up before it
  had read its replies: requests of that call may still change the keys, and a
  `rename` that takes its replies for its own can delete a value it did not
  copy.  `dbindex` is true, and a socket leaks only when `SELECT` fails in `init`.
- What the JSON library writes it reads as an equal document, except for
  documents with a null pointer left by `json_array_remove`, with raw control
  characters, or nested deeper than it reads.  Strings in documents are
  well-formed UTF-8.  A call that succeeds does what it is for and leaves what
  other names lead to alone, and one that fails changes nothing.  Memory is lost
  in four ways, each of them exactly as much as `BlocksKept` says: with a value
  that `json_object_set` refuses, with the last item when `json_array_remove` removes
  another one, with a key without a colon, and with a value in a text for a member
  that cannot be added.  Nothing is freed twice.

## 4. Findings

Each of these is a run that TLC ends with a counterexample (`PROJECT.json`,
`findings`).

- `pool_server`: one thread serves whatever `thread_num` is
  (`pthread_handle.cpp:40` executes the task under the lock; `event_run` adds
  one endless task), while `jpush_2.conf:33` says that 0 means a single thread.
- `record_types`: `case 1` at `event_drive.cpp:249` and `case 100` at
  `event_drive.cpp:331` have no `break`; send type 1 and custom messages are
  rejected although the texts at lines 240 and 332 announce them.

These were seen while modelling; the models contain them, and where a property
would fail it names them as an exception.

- *Configuration.*  `files.cpp:253` stores `sendno` in an `int`: 2^31 and more
  becomes negative and no record is served, while `jpush_2.conf:49` allows all
  of 32 bits.  `msg_type` and `thread_num` are not initialized, while
  `jpush_2.conf:61` and `:33` name defaults.  Without a line for `db_port` the
  test for incomplete parameters at `event_drive.cpp:48` reads an uninitialized
  `int`.  The rest of a masked line longer than 255 characters is parsed
  (`files.cpp:196`), while `jpush.conf:6` says that `#` masks.  `code_convert` has no
  look at the result of `iconv`.
- *Records.*  A warning type that is no number is served as type 0.  A text with `&`
  or a quote changes the request or the row, each without the other, and a text with
  `%` the log line.  The limits of `strTemp`, `temp` and `sql` are tested nowhere.
- *mysql.*  `insert_record`, `update_record` and the lock functions return false
  on success and true on an error, being of type `bool`; `store_data_msql` has no
  `return`, and its caller looks at no result.  The server's own
  connection never calls `ensure_connected`, so a lost one stays lost.
  `"UNLOCK TABLES name"` is no statement of mysql.  `exec_proc` leaves the
  results of a procedure unread; `do_mysql_cmd` drops the previous result
  without freeing it.
- *redis client.*  In `close`, `close(con.socket)` is the method itself: it
  closes no socket and calls itself without end for a connection whose
  `dbindex` is its own socket number.  `connect` never reconnects.  A failed
  `SELECT` in `init` leaks the socket.  `srandmember` sends `SPOP`; `msetnx`
  expects `OK` and throws on the integer.  Keys do not move when a connection
  is added.  `select(dbindex, con)` compares host, port and database: for a server
  connected twice it notes the database at a socket that was told nothing, and
  a copy of `con` from before an earlier `select` is found nowhere.
- *JSON library.*  `json_array_remove` of an item that is not the last leaves a
  null pointer in its place and loses the last item, where `parson.h:167` says
  that the value at the index is removed and freed, and that the order may change.  Control characters without a short escape are
  written raw, and nesting beyond 19 is written, and neither can be read.  A
  refused `json_object_set_...` leaks the value it made; the parser leaks at a
  missing colon and at a duplicate name, ignores text behind the document, and
  does not look at the opening quote of a key.  `\u0000` cuts a string.  Names
  are not checked to be UTF-8.

## 5. Proofs

Each theorem holds for every value of the constants that satisfies the named
assumptions; TLC evaluates these in every run of the module.

| module | assumptions | theorems |
|---|---|---|
| `Threads_proof` | `ThreadsAssumption`, `DataAssumption`, `SizeAssumption` | of `CmdFifo` `TypeOK`, `ListSafe`, `CountsAgree`; the refinement `ImplementsQueue` |
| `Threads_proof` | `PoolAssumption` | of `PthreadHandle` `PoolTypeOK`, `TasksSerial`, `NoLostWakeup`, `FreedSafely` |
| `RecordPath_proof` | `TextAssumption`, `SettingsAssumption`, `NumberAssumption`, `SizeAssumption`, `LiteralsAssumption` | `FrontInside`, `FieldsClean`, `FieldsReturned`, `ServedExactly`, `RequestAndRow` |
| `ConfigFile_proof` | `WidthAssumption`, `TextAssumption`, `FilesAssumption` | `SettingsExact`, `ServesWhenConfigured` |
| `DbSession_proof` | `PoolAssumption` | of the pool alone `TypeOK`, `ConnectionsSafe`, `PermitsServed`; with users at work these again and `UnitsWhole` |
| `RedisSession_proof` | `SessionAssumption`, `NumeralAssumption`, `WordsAssumption`, `TableAssumption`, `DigitAssumption`, `ExpectedAssumption` | `RequestExact`, `StreamSafe`, `AnswerExact`, `OnlyErrorsThrow` |
| `RedisCluster_proof` | `ClusterAssumption`, `CallAssumption`, `ContentsAssumption`, `KeysAssumption`, `WordsAssumption` | of `RedisCluster` `RepliesSafe`, `ConnectionsTrue`, `MovesSafe` |
| `EventHandle_proof` | `BoundsAssumption`, `NoDataAssumption` | `TypeOK`, `BacklogBounded`, `RowsFollowPushes`, `DeliveriesInOrder`, `EndHasCause`; the refinement `ImplementsService` |

The shape is the same everywhere: an invariant `IInv`, one lemma or step per
action that it is preserved, the theorem `Inductive` (`Invariance` and
`PoolInductive` in `Threads_proof`, `ClusterInvariant` in `RedisCluster_proof`),
and one theorem per property that follows from it.

**Command queue.**  That a pop finds a command (in `ListSafe`) is what matters,
and it is not inductive: that the list is not empty at a pop follows from
counting.  `IInv` is `TypeOK /\ OneThreadAtList /\ SlotsConserved /\
CommandsAnnounced`.  `CommandsAnnounced` counts a consumer at its pop as
`Claimed`, so the list has at least that many commands.  `SlotsConserved` gives
the bound on the length of the list that `BoundedQueue` demands of a `Put`: a
producer that is about to push is counted as `Reserved`.  `OneThreadAtList`
carries the mutex through the induction.  The counts are cardinalities;
`ProofLemmas` says how they change when one thread moves, `StepCounts` what each
step does to the four of them.  For the refinement, `StorePush` is `Put`,
`GetPop` is `Take`, `StoreCall` is `Offer`, `GetCall` is `Ask`, and every other
step stutters.

**Thread pool.**  `IInv` adds to `TypeOK` and `NoLostWakeup` who holds the lock
(`LockHeld`), that the list is empty as long as a worker is between its test and
its sleep (`WaitsEmpty`, which is what makes a late signal harmless), and how far
the one effective `pool_destroy` has come (`DestroyedOnce`).  `TasksSerial`
follows from `LockHeld`: a task runs only in the owner.

**Records.**  `string_filter` counts nothing, the reference counts delimiters.
`SplitInv` ties the two together at the test of the loop condition: `front` is
just behind a delimiter, there are as many fields as delimiters before it, and
each is what the reference cuts (`Progress`).  `FoundField` and `RestField` show
that the next copy cuts the next field, `AllVisible` that at the end only fields
are missing that begin at the last character.  `ServedExactly` follows through
`SeenIs`, which says what the checks see of the fields that the reference cuts.
For `RequestAndRow` the invariant `PathInv` adds that the command, the request
and the row are the functions of the fields and of the settings that the code
computes (`CommandIs`, `FormIs`, `RowIs`); `RequestIsTrue` compares these with
what the record says.  That needs `LiteralsAssumption`: the titles the code
writes are valid UTF-8.  Where the behaviour is undefined the induction stops: a
path that ends there has passed what `Unsafe` names, and `ServedExactly` says so.
The value of the digits in `strtol` is a recursive function, and the library's induction theorems cannot be
instantiated here; `NumeralExists` shows what such a function is by looking at
the least number at which it would differ (`LeastNumber`).

**Configuration.**  `SettingsExact` speaks of a file that has been read.
`UpToDate` says the same of every position in the file: each setting is what the
last of the pieces passed so far says, and what `init_data` or the memory gave it
if none of them names it.  That is what the code makes of the pieces; `Intact`
ties it to what the file says, where nothing is cut and nothing masked looks like
a setting.  `PassesOne` shows that one `fgets` adds exactly one
piece to those passed, the latest.  `ServesWhenConfigured` follows from
`SettingsExact`: the numbers such a file gives fit their width, so `ToInt` leaves
them alone (`ToIntExact`), and the checks then find everything they ask for.

**Connection pool.**  `ConnectionsSafe` needs that the lock is held around both
accesses of the list (`LockHeld`) and which objects exist (`Alive`).  That permits
match is a count again; the ghost `stale` makes it an equation.

**Units of rows.**  `UnitsWhole` says nothing of a unit in progress.  `Careful`
says it for a user that is not excused: before the unit its rows are nowhere;
within it they are at most in the transaction of its own connection, and there
they are exactly those inserted so far if the connection is up and none if it is
down; afterwards both or none are in the table and none is left in a transaction.
That a connection that is up is the one on which the unit was begun needs that
nobody else has it, which is the invariant of the pool; `PoolKept` carries that
over, because the calls of a unit change nothing of the pool but `link`.
`OthersKept` says that a step of one user leaves the rows of the others alone,
also when its `start transaction` commits what somebody left behind.

**Server.**  That rows are in order says nothing of records that are still on
their way, so it is far from inductive.  `IInv` says that the ids at each station
(redis list, main thread, queue, worker) are below the ids at the stations before
it, in order within each station, and above those of the rows and the requests
(`Stations`, `Table`, `Past`); that all but the last `tries` requests are for
earlier records (`Requests`), which gives the bound of four; what each thread has
in its hands (`Hands`); and which event explains a bad connection or an empty list
(`Causes`).  For the refinement the sequences of `PushService` are concatenations
of the stations: `DecodeStores` is `Accept`, `Perform` is `Attempt`, `Insert` is
`Settle` (and so would be the drop of an incomplete command in `GetReturns`), the
actions with `Die` in them are `Crash` (`InsertDies` with the row stored first), `Rpush` is `Arrive`, `OtherPop` and
`DecodeRejects` are `Vanish`; `Lpop`, `StoreDone` and the rest of `GetReturns` move
a record within a concatenation and leave it as it is.

**Redis connection.**  What is in the stream while a reader is at work is what
the properties leave out, and what the induction needs.  `InStep_` says it for
each of the steps of `read_line` and `read_n`: what the reader has of its line or
its bulk, what waits in the socket and what is under way make up the bytes of the
bulk it is at, of the elements behind it and of the other replies that are owed
(their beginning, when the connection is lost).  `Sent` is the same for the other
direction: what the server has and what is still to be written are the requests
of the commands that are due.  `FirstCommandIs` shows that the server reads a
request as it was built, whatever its parameters hold, and `FirstLine` that a line
cut out of the stream is the first line of the reply: it ends at the first line
feed, and no first line holds one.  That a reader is run for a reply of its kind
is `Fit`; `PossibleFits` derives it from the commands and the readers of a call
(`ForReaders`, `ForServer`), so that the only calls that leave something unread
are those of several commands.  A call made after one of these (`Late`) may be
given any reply; of it the invariant says only that its own command comes last.
`ThrowsRight` (`OnlyErrorsThrow`) needs no further invariant, but one step of the
induction per reader: as long as a call reads what its server answered to its own
command (`Welcome`), every line it looks at is one its reader accepts, and what it
returns is of the answer (`ValueGiven`); so what makes it throw is an error reply.
The calls of `Picky` throw on other answers too, and are left out by name.
What a reader hands over is `Handed`: the contents of the reply but for the generic
reader, whose losses `AnswerExact` states; a number is one of a few (`Counts`), or
the one that exceeds an `int`.
What is assumed: a number is written as one symbol, each in a way of its own, and
no stored value is longer than the largest one (`NumeralAssumption`,
`SessionAssumption`); a command of the tables has one to ten words, and the tables of `RedisCommands` have no call whose reader
stops short of the rest of a bulk or a multi bulk (`TableAssumption`, which TLC
evaluates on the tables); and that the words of the stream are strings
(`WordsAssumption`), which the provers have to be told; that a call outside of
`Picky` takes the kind of reply its verb is answered with and can make its result
of it (`ExpectedAssumption`, which TLC evaluates on the tables); and the numerals of
the numbers a server says here (`DigitAssumption`).  `FlattenSeq` and the
first place of a parameter (`ParamAt`) are recursive; `Recursion` in `ProofLemmas`
shows of such a function what it is at each place by looking at the first place at
which it would differ.

**Several redis servers.**  That nothing is left over after a call is a matter of
counting, for every call of the library and the rounds it plans.  `WireInv` says
it of each connection that is not lost: while a round is sent (`Sending`), as many
requests and replies are under way on it as the round has sent to it; while the
replies are read (`Receiving`), as many as the round still reads from it.  The two
meet because a round reads from each server one reply per command (`Balanced`),
and that each `Plan` makes such rounds is shown call by call and put together in `PlanOK`
(`SpreadOK` and `MSetOK` for keys that are sorted by server, `BroadcastOK` for all
servers, `SAddRangeOK` for a pipeline).  A transaction does not fit: its last reply
answers several commands at once, so `Transacting` follows the position in its
commands, and `MultiInv` says where in what is under way a server is between
`MULTI` and `EXEC` (`Brackets`).  `RunFor...` show that each command with the
arguments it needs has an answer and leaves a database.
`dbindex` is true while a `SELECT` is under way only because its reply has not been
read (`SelectInv`), and a socket is open because a connection owns it, because
`init` is at work on it or because its `SELECT` failed (`SocketsOwned`,
`SocketsOpen`).  All of this is said only until a call gives up early (`slipped`),
except about the sockets and the types: `recv` then meets what the earlier call
left.  Calls, connections that are lost and servers may be any number.

That a value which moves is not lost on the way (`MovesSafe`) is about the
contents, and `MoveInv` is kept together with `IInv`.  It says that a `rename`,
`renamenx` or `smove` in progress has one command under way, or its reply
(`MoveRound`), and how far the call is, given the replies so far (`Halfway`;
`Copied` for a copy between two servers: what the new key holds after so many
parts of the value, while the old key still has it all).  And it says that the
command is `Safe`: whatever database processes it, if that agrees with what the
client sees, the value is kept (`Keeps`) and the reply brings the call as far as
`Halfway` says.  `MovePlan` shows that of every round that `Plan` makes for these
calls, `ViewTurns` relates the step of a server to what the client sees of all of
them, and that there is one command only (`OneUnderWay`) comes from the counting
above.  An earlier call that gave up is left out, in the property too: its
requests may still change the keys, and `rename` would take its replies for its
own.
What is assumed of a call (`CallAssumption`) is that its lists are not empty and
that its commands have the arguments they need; and that `Keys` is finite and keys
are strings (`KeysAssumption`).

A leaf whose search takes a second or more names the prover that finds it, and
`SMTT(60)` or `ZenonT(60)` gives that prover a minute instead of its few seconds,
so that a proof does not depend on the speed of the machine; most of these
regroup a concatenation.

**Only model-checked**: `ImplementsFairQueue`, `TasksStart`, `DestroyEnds`,
`Terminates`, `EveryRecordSettled`, `WaitersServed`, `CallsEnd` (liveness under
fairness needs `ENABLED`, which the proof system does not handle);
`ActsAsOne` of `RedisCluster`, which compares the contents of the servers and the
result at the end of a call with those of one server, and needs for each of the
calls what the commands sent so far have done; and `RoundTrip` and `StringsWellFormed`
of the JSON modules, whose values are trees treated by recursion.

## 6. What is not modelled

- `reset_value`, `clear_resources`, `check_cmd_empty` of `jpush_arg`,
  `store_data_redis`, `background`, `daemon_init`: nothing calls them.
- `releae_resources` after the loop of `event_run`: the loop does not end.
- The wording of titles and contents, the text of the form body and of the sql
  statements, MD5, logging, beyond what `RecordPath` and `EventHandle` say of
  characters with a meaning, of formats and of `cur_time`.
- What the program does behind undefined behaviour: a record of 1024 bytes or more,
  a field of 256, a statement of 1024, a `%` in a log line.  The models say where
  it begins.
- What the service and mysql make of a text that is taken for a part of the form or
  the statement: any request, and no row.
- A redis client with one server in its list twice (`DistinctAssumption`).
- `DbConnect`: `lock_table_read` and `lock_table_write` (their effect is that of
  mysql's locks alone), `update_record`, `exec_proc` and the queries (statements
  like an insert, or without an effect on the table), the options of `open`.
  `DbRecordset`: the cursor over one result, which one user reads on its own.
- `redisclient.h`: `brpop(vector)`, `sort` with a limit and `msetnx(pairs)` do
  not compile when they are instantiated; the `distributed_...` classes keep no
  state but a key and a connection and make one or two of the modelled calls per
  method; `anet.c` beyond `anetWrite` and connecting.
- `parson.c`: failing allocations, reading and writing files, numbers that are
  not integers, `json_validate`, which changes nothing.
- A failing `pthread_create`; its result is ignored.
- Settings that are read and used nowhere, and the single textual parameters of
  mysql, which `event_init` tests alike (`db_ip` stands for them).
- Callers that race `create_pool` or `destroy_pool` with other operations.
- `strtok.cpp`, which is not part of the build.

## 7. Order of the work

The modules were written in this order, and a change is best followed through
it: `BoundedQueue` and `CmdFifo`; `PthreadHandle`; `StringFilter` and
`RedisRecord`; `PushService` and `EventHandle`; `ConfigFile`; `DbPool`; the redis
modules from `RedisCommands` to `RedisCluster`; `RecordPath`; the JSON modules;
`DbSession`.  What would come next:

1. that the calls for several servers do to the contents what one server would,
   as a theorem (`ActsAsOne`), call by call;
2. the `distributed_...` classes of the redis client, whose increments are single
   commands and whose other operators are a get and a set;
3. failing allocations in the JSON library.
