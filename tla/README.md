# PHP/FI 1.99s: a TLA+ verification of the interpreter

PHP/FI 1.99s (`src/php-1.99s/`) is a C program that runs as a CGI program, as a FastCGI server or inside Apache, reads
an HTML page with embedded code and executes the code. It has three traits that make it hard to test, and they are what
the modules here are about:

1. **It executes a page while parsing it.** There is no syntax tree. The grammar's actions are the interpreter, and they
   also run for code that is to be skipped; five stacks say whether the current token is live, what the next `}` ends
   and where a loop began. Whether nested constructs work depends on all the handlers agreeing on these stacks.
2. **Many processes share files.** Pages open dbm files and every page may be logged in one, and two builds of the
   program keep writers apart in quite different ways.
3. **Memory, descriptors and connections belong to a request.** They are given up wholesale at its end, or at the end of
   a part of it, and in the resident builds (Apache, FastCGI) what is forgotten stays for ever.

Much of what goes wrong in this program goes wrong only on pages that do unusual things. Instead of leaving such pages
out, the modules give every environment a set of **habits**, one for each thing that some property does not survive, and
each property says without which habits it holds. Each of these conditions was tried: without it TLC finds a
counterexample, but where the text says otherwise.

Paths below are relative to `src/php-1.99s/src/`; `doc.html` is `src/php-1.99s/doc/doc.html`. `PROJECT.json` maps every
definition to the lines it stands for, and lists the hazards with their lines and the properties that cover them.

## Inventory

| component | state it keeps | operations | what must hold |
|---|---|---|---|
| control flow: `cond.c`, `while.c`, `switch.c`, rules of `parse.raw`, `BraceCheck` of `lex.c` | condition, match, brace, while and switch stacks; heights saved by a call | one handler per keyword; `DefineFunc`, `RunFunc`, return | live code is executed and skipped code is not; `}` and `endwhile` lead to the right place; a construct leaves nothing behind |
| dbm files, opening: `db.c` | the stack of open files; the kernel's locks; `.lck` files | `dbmopen`, `dbmclose`, `dbmCloseAll` | writers exclude each other; nothing stays locked between requests; who waits gets the lock |
| dbm files, records: `db.c` | the records of a file, a position in it, a static buffer | insert, replace, delete, fetch, exists, firstkey, nextkey | the file is a map; an iteration is complete and repeats nothing |
| memory pools: `pool.c` | chains of blocks, a free list, sizes | allocate, clear, free | no memory is handed out twice, none gets lost |
| access log: `log.c`, counters in `info.c` | entries, the "last" record, cached counters | `Log`, `MsqlLog`, `getTotal`, ... | every hit is counted once; the log never waits for ever |
| variables and calls: `var.c`, `stack.c` | frames of variables, the expression stack | set, get, global, static, call, return | a call sees its own variables, and leaves none behind |
| arrays: `var.c`, `sort.c` | a chain of nodes, count, last node, cursor | assign, append, set by key, `+=` and its like, unset, reset, next, prev, sort, count, key, max, min | the cursor never leads to a deleted node; a value fits where it is stored; the chain is the array of the manual |
| lexer: `lex.c` | stack of files, byte position, table of functions | include, eval, call, end of file, `Exit` | control returns to where it came from, whatever was open |
| open files: `file.c`, `fsock.c` | a list of `FILE *` by descriptor, a cached `stat`, the state of `fgetss` | fopen, popen, fsockopen, fclose, pclose, fgets, fgetss, fseek, fputs, chmod, unlink, rename, filesize and its like | a number names one open file; nothing stays open or unwritten; an answer is about the file that was asked about |
| mSQL: `msql.c`, its use in `log.c` | one connection with what is remembered of it, numbered results | connect, query, list, create, drop, free, `PutEnv` | a query runs on the host and database it was sent to; a result stays until it is freed |
| Postgres95: `pg95.c` | connections and results by number, the table of types | connect, close, exec, result, type, free | a result stays as long as the page keeps it; nothing that is freed is used |
| a request: `main.c`, `head.c`, `error.c`, `OpenFile` of `file.c` | header sent?, report errors?, Exit called?, working directory, last `stat` | find the file, check access, output, error, header, include, Exit | one header, before the body; one page for an answer; the right file, to its end; the request ends |
| access control: `acc.c`, `conf.c` | rules in dbm files, the screen's record | check, add a rule, save a form | what is stored is what was made, what is applied is what is stored |
| rest: `calc.c`, `string.c`, `echo.c`, `info.c`, `reg.c`, `post.c`, `mime.c`, `gd.c`, `dir.c`, `date.c`, `exec.c` ... | none, or one buffer | one C function per PHP function | each is a calculation or a call of a library |

How they meet:
- The lexer hands tokens to the parser, the parser calls the handlers, and the handlers read `State`/`Active` on top of
  the condition stack; almost every other function of the language runs only if `GetCurrentState` is true. A function
  call moves the lexer to the function's text and saves two of the five stack heights; the end of the text restores
  them.
- `Exit` (`lex.c`), reached at the end of a page, from an error or from `exit()` at any depth, writes the access log,
  which itself opens a dbm file through `db.c`, and then calls `dbmCloseAll`. The file a page left open is therefore
  taken off the one-entry stack by the log's.
- A call, an include and an eval push the text that is being read on the file stack and run the parser again; a call
  also pushes a frame of variables, calls and evals push marks on the stacks of the control flow. `FilePop`, at the end
  of the text, decides by `cur_func` and `eval_mode` which of these it takes off again.
- Every string of a page lives in a pool: pool 0 is that of the request, pool 1 holds what one token needs and is
  cleared by the next, pool 2 holds the expression stack and is cleared between statements, though not inside functions
  and evals.
- A request first finds its file (or, as an Apache module, is given it), is judged by the rule-sets of its user, and only
  then parses the page; each of the three may print an error or a form, before which `php_header` must have sent the
  header, and each may end the request by way of `Exit`.
- The log of a page may use the page's own mSQL connection.
- Processes share nothing in memory. They meet in dbm files (the rule-sets are one), in lock files and in the mSQL tables
  of the log.

Hard behaviours: the order of closing tokens against five stacks; early returns out of loops; two processes between the
open and the lock of one file; a lock dropped by the close of another descriptor; a reader in the middle of a two-step
replace; a kill between two writes; a lock file removed while others wait for it; a cached counter that is stale; memory
reused after a clear; a number that names another file by now; a remembered database, port, size or directory that is no
longer that of the thing it is used for; an error before the header, and a page after the form that was to replace it;
two administrators over one file that each opens several times.

## Modules

    Control ── ControlProofs                       Arena <── Pool ── PoolProofs      (Pool implements Arena)
       └ MCControl                                             └ MCPool
    DbmLock ── DbmProofs                           Scopes <── Calls ── CallsProofs   (Calls implements Scopes)
       └ MCDbmLock                                              └ MCCalls
    FlatFile ── FlatFileProofs  (one writer)       Lists <── Arrays ── ArraysProofs  (Arrays implements Lists)
       └ MCFlatFile                                            └ MCArrays
    Msql ─┬─ Databases ──┐                         Rules <── Access <── Session ──┐
    Postgres ┘ └ MCDatabases │                                            └ MCSession │
                         DatabasesProofs                                       SessionProofs
    AccessLog ───────────────┘                     Files ─────────────────────────────┘
       └ MCAccessLog                                  └ MCFiles

`Arena`, `Scopes` and `Lists` are abstract specifications. In the last rows modules extend each other: `Access` adds the
file and the administrators who change it to the format of `Rules`, `Session` adds the process that serves pages and
reads the file, and `Databases` composes `Msql`, `Postgres` and the end of a request. `AccessLog`, which opens its file as
`DbmLock` does, and `Files` are specifications of their own (`LogSpec`, `FilesSpec`); their proofs stand beside those of
the modules they have to do with: the log uses the connection of `Msql`, and a page's open files go with its request.

### Control

The environment is the author of a page, who emits a properly nested page one token at a time. Each `Do...` action is
one token with the grammar's guard and the handler it calls (`If`, `Else`, `Switch`, `Case`, `While`, `EndWhile`, ...
named as in the C files); a closing token may be written as a word or as `}`, which `BraceCheck` turns into whatever is
on top of the brace stack.

| variable | code |
|---|---|
| `cond` | `CondStack`: `state`, `active` (`cond.c`) |
| `match` | `MatchStack` |
| `brace` | `EndBraceStack` |
| `loops` | `WhileStack`; a loop is known by the depth at which it was opened, not by its byte position |
| `switches` | `SwitchStack`; the expression is a value of `Vals` |
| `marks` | `CondMark`, `MatchMark`: what a call saves. The code saves pointers to nodes; nodes are taken from and given back to LIFO free lists, so a height says the same |
| `err` | the last thing that went wrong: a reported error, an empty stack dereferenced, a parse error, a jump to the wrong place, a function that was closed and not defined |
| `nest` | history: the constructs open in the page and what C makes of each |

The properties compare the program's stacks with `nest`: `StateFaithful` the condition stack, `StacksFaithful`, with its
parts `BraceFaithful`, `JumpFaithful` and `SwitchFaithful`, the others. The manual says that the constructs behave like those of C
(`doc.html:1600`), which makes `nest` the specification and not another copy of the program.

**PlainPages** describes the pages on which the program does what C does: inside a *skipped* construct there is only an
if, a switch in a switch or a while in a while; every case ends with break; break occurs nowhere else; a function
returns with nothing open. Every condition is needed:
- fall-through breaks `StateFaithful`: `Case` pushes an entry over that of the case before, and only break pops one, so
  that endswitch leaves the code after it under the state of a case;
- a while or switch closed by `}` inside a skipped if breaks `BraceFaithful`: its entry stays on the brace stack, and
  the `}` of the if ends the wrong construct, although "these ending constructs can always be replaced with a closing
  curly brace" (`doc.html:1391`);
- a break inside an if in a case is answered with "Misplaced break", which breaks `NoErrorReported`;
- a return out of a while breaks `JumpFaithful`: `PushWhileMark` and its kind are never called, so the position of the
  abandoned loop stays;
- a while inside an if inside a function body, closed by `}`, breaks `NoErrorReported`: the function is
  never stored.

With closing words only and any nesting, and returns out of ifs, `StateFaithful`, `JumpFaithful` and `SwitchFaithful`
still hold; it is the brace stack that needs the restriction.

### Scopes and Calls

`Scopes` is what the manual says of variables (`doc.html:1445-1518`): every variable of a call is its own, unless the
function declares it global or static. `Calls` is the code: the file stack of `lex.c` and the trees of variables of
`var.c`.

| variable | code |
|---|---|
| `size`, `fileSize`, `gfd` | `gsize`, `CurrentFileSize`, `gfd`: where the text that is read ends, the size that the next call will save, and whether the descriptor is -1, by which `FilePop` knows a call out of a function |
| `evalMode`, `curFunc` | `eval_mode`, `cur_func` |
| `files` | `FileStack`: name, size and descriptor of what was read before |
| `marks` | the marks of `Control`, each known by the text it was set for |
| `frames`, `main`, `inMain` | `fs_top`, `var_main` and `var_top`; a tree maps names to value and scope, an unset entry stays in it with the value `Undef` |
| `statics` | the tree of each `FuncStack` |
| `ctx`, `habits` | history: the texts that are read, innermost last, and what the author of the page does |

`Plain` pages have none of the `AllHabits`: they have a variable before they call a function, in the page and in each
function that calls another; declare static variables only in functions; neither include nor evaluate inside a function;
call, include and evaluate nothing inside an eval; miss no file; and declare and set no global variable in a function
that the page does not have. Each habit alone makes a property of plain pages
fail:
- *first* breaks `Implements` and `NoStrayGlobal`: a frame whose tree is NULL is taken for the page's (run
  `calls_scope`); a new global is lost when the page has no variable yet, and one declared after such a return leads
  `SetVar` to itself without end (`crashed`);
- *top* breaks `Implements`: a variable declared static in the page sends every assignment that a function makes to it
  as a global to the function's own tree;
- *reads* breaks `TextFaithful` and `MarksFaithful`: the end of an include or an eval inside a function takes the
  function's frame and marks, and an include leaves `cur_func` NULL;
- *evals* breaks `TextFaithful`, and evals in evals leave marks behind (hence the bound on marks);
- *fail* breaks `TextFaithful`: `OpenFile` stores the size of the last file looked up before it knows that there is no
  such file, and after the next call the page is read to that size;
- *creates* breaks `Implements`: a variable declared global that the page does not have is created there by an
  assignment (`SetVar`, `var.c:134-143`), which `Scopes` does not allow, because the manual says that a function cannot
  do it (`doc.html:1481-1482`).

For every page, whatever its habits, no frame outlives its call (`FramesEnd`). A declaration of a variable that has a
value declares nothing, in `Scopes` as in the code: `global` leaves it alone and `static` assigns to it. Left out:
arrays, increments, variable variables, parameters given twice, a variable declared both global and static, the
unmapping of files, the lines and lexer states that `FilePush` saves.

### DbmLock

Server processes run pages that open and close files. `top` is the `dbmStack`: `dbmPush` sets the next pointer of the
new entry to NULL, so there is never more than one entry, and an earlier one stays open in `lost`. A `Setup` is a build
(library, `NFS_HACK`, `lockf` or `flock`, resident or not) together with the habits of pages (log, several files,
kills). The kernel's lock rules are the environment: one writer or many readers; with `lockf` a process is not in its
own way and loses all its locks on a file when it closes any descriptor of it, and a request that would complete a
circle of waiting processes is refused (`db.c` does not look at the result); with `flock` none of this.

### FlatFile

The file of the build without gdbm and ndbm: a sequence of records that are wiped, never removed. Each `write` of the
code is a step of its own, so that a reader, who takes no lock, meets records of which only the size of the key, the
key, or the size of the content is there. `pending` is what `dbmreplace` still has to append after the wipe. `content`
is `_dbmFetch`'s static buffer. `map` and `iter` are history: the map that the calls describe and what an iteration
owes. `dbminsert` does not look whether the key is there, although `doc.html:1886` says the insert will fail. The
constant `Presents` says whether pages insert such keys: with `TRUE`, `FlatInv` (its part `MapFaithful`) and `IterationExact` fail, as two
live records of a key come up and a delete brings the older one back. `MapFaithful` says nothing of a fetch of a key that is not there, for
which the code returns what an earlier fetch left in the buffer. An iteration that meets a key of which only the size is
written returns the empty key, as at its end, but leaves its position behind that size, in the middle of the record
(`Lost`, `db.c:741-747`, `783-788`): from there a further `dbmnextkey` reads keys as sizes, and may end anywhere
(`NextKeyAstray`), as it may without a `dbmfirstkey` before it. `IterationExact` is a promise until the empty key is
returned. Left out: mode c (append-only writes put the
wiping 0 at the end) and the different stripping of slashes in insert and fetch.

### Arena and Pool

`Arena` is what the callers of `emalloc` and `estrdup` rely on: memory of the size asked for, shared with nobody until
its pool is cleared or the request ends. `Pool` is `pool.c`: chains of blocks, first fit on the free list with
`BLOCK_MINFREE` to spare, rounding, the pool header in the first block, `php_pool_clear` and the end of a FastCGI
request, where `php_init_pool` forgets what `php_pool_free` returned early on. `request` splits an allocation into the
making of the pool and the handing out, as in the code; it is also the visible state of `Arena`, and `live` the other,
so the refinement mapping is the identity on names. Left out: the quota `MaxDataSpace` (which ends the page but hands
out the memory), a `malloc` that fails, the Apache build, and the alignment of addresses after a request for 0 bytes,
which the code does not keep.

### AccessLog

The log of one page, written from `Exit` by several processes: as a flat dbm file (locked once it is open), as a gdbm
file (which refuses to open what is in use) or as two mSQL tables guarded by a lock file that `MsqlLog` makes, locks,
unlocks and removes. Locks belong to inodes, not to names: `holder` is indexed by inodes and `lockfn` is the inode the
name leads to at the moment. `total` and `today` are the process's `total_count` and `today_count`, -1 as long as they
are not known; the footer caches them from before the lock is taken. Facts the model follows the code in: `dbmFetch` of
a missing "last" record returns "", so that the counter restarts at 0; a file that cannot be opened for writing is taken
for missing and created in mode n, which empties it; a flat-file replace is a wipe and an append, and a kill between
them loses the record. The count of *today* is not promised at midnight, because the page's time is taken after the
counter is read. Left out: host, e-mail and the other fields, the directories, the "first" record, ndbm, and the `free`
of pool memory in the flat-file `dbmFetch` (in `FlatFile` as `FetchDies`).

### Lists and Arrays

`Lists` is the array of the manual: items with keys in the order in which they came, and a pointer that walks over them.
`Arrays` is one variable in `var.c`.

| variable | code |
|---|---|
| `nodes` | the chain that starts with the variable itself and goes on by `next`: key, value, `allocated`, and (history) the room that was really allocated |
| `count`, `last`, `deleted` | `count`, `lastnode`, `deleted` of the first node |
| `cur`, `stale` | `lacc`: the place of the node, with a copy of the nodes behind the first if `copyarray` has cut them off under it |
| `kind` | whether the values of the page are longs or strings; as strings only their lengths and order count |
| `hung` | `$a[] = $a` follows the chain that it is adding to |
| `habits` | what the page does |

| property | fails with | because |
|---|---|---|
| `CursorInside`, part of `ArraysInv` | refill | `copyarray` links new nodes behind the first and leaves the cursor in the old ones (`var.c:1518`) |
| `RoomHonest` | sorts | `Sort` swaps the strings of nodes and not their sizes (`sort.c:93`) |
| `ReadsFaithful` | refill, nest | the count adds up; an array assigned to an item adds nodes that are not counted |
| `Implements` | all but sorts | an array is appended to, not replaced; a key that is taken comes a second time; a key other than "0" is not that of `$a`; after unset a node is marked and stays. (Masks are excluded as well, though `&=` and `\|=` leave an item alone, which a refinement takes for a stutter.) |

Left out: reals, the largest and smallest of strings, which `max` and `min` also promise (`ReadsFaithful` compares
numbers), `+=` on strings (which joins them) and `-=` on strings (which takes matches out), variable variables,
environment variables and arguments read as arrays.

### Files

| variable | code |
|---|---|
| `fps` | the list at `fp_top`: number, name, kind; `line` and `dirty` are what `stdio` and the kernel know of the stream; `gen` (history) tells streams with the same number apart |
| `fds`, `disk` | the process's descriptors; what `stat` would say of each file |
| `statName`, `sb` | `CurrentStatFile`, and the static record of `file.c:446` |
| `tag` | `fgetss_state` |
| `held`, `inTag`, `read`, `lost` | history: the numbers the page has, where `fgetss` stopped inside a tag, its answer and the one that was due, whether something written never came to its file |

What `fgetss` should return is a definition of its own (`Marked`): the text outside of tags and code, whatever the lines.
Of a file the same definition says which of the habits query, spread and bare reading it takes (`Traits`).

| property | fails with | because |
|---|---|---|
| `HandlesFaithful`, part of `FilesInv` | stale | a number that was closed may be another file's by now |
| `NothingLeft` | refused; swap; leave, in resident builds | a socket without connection is never closed; `pclose` may refuse a file that has left the list; nothing closes a page's files at its end (`file.c:52`) |
| `StatFaithful` | missing, changes; in Apache, self | the name is remembered before `stat` is known to work, the record for ever; the module begins with the page's name and no record |
| `TagsStripped` | wanders, query, spread, bare | one state for all files; a `?` anywhere in a tag is taken for the beginning of code; brackets and strings are counted by the line; a `>` in the text is left out (`file.c:872`) |

Left out: that reading a file moves its time of access, so that what `fileatime` remembers is old after an `fgets`.

### Msql, Postgres and Databases

`Msql` has the connection (`sock`: where it leads, what the server has selected, whether it is open), what `msql.c`
remembers of it (`curDB`, `curHost`, `curPort`), the ports in the environment (`env`), the functions that are still to be
called for the first time in this process (`first`), the results and their number; `Postgres` the connections, results
and the table of types, a result among the others. History: the results the page holds (`owned`, `kept`), where the
last query should have run and did (`ran`), and whether a NULL or freed memory was used (`crashed`, `freed`).
`MsqlLog` is here as far as it uses the connection of the page; what it does to the counters is in `AccessLog`. A
process that serves many pages keeps the environment from one to the next.

| property | fails with | because |
|---|---|---|
| `RanWhereWanted` | lists; logs with hosts or switch | `msql_listtables` selects a database that is not remembered (`msql.c:707`); the log uses whatever connection there is |
| `MsqlResultsKept`, part of `DatabasesInv` | lists, port, switch; logs with hosts | results go with a connection that is made anew because the ports seem to have changed, as they do on the first call of each function; where the log has connected to the local host, the queries of a page that uses another host go there |
| `MsqlSound`, part of `DatabasesInv` | nolog; gone; switch without port | the log closes the page's connection (`log.c:692`); two functions do not look whether there is a result; the ports are compared with NULL (`msql.c:193`) |
| `PgSound`, part of `DatabasesInv` | strays, typeless | `pg_result` with a number that is none; a page that frees the table of types, which has a number like any other |

### Rules, Access and Session

`Rules` is the string in which a rule-set is stored, and how `StrtoAccess` takes it apart, `PostToAccessStr` puts it
together and `AddRule` adds to it: fields of which some say what the next one is. `Access` is the dbm file of one user
and the administrators at the `?config` screen, each request a process that opens and closes the file several times, with
the locks of `DbmLock`: gdbm refuses, a flat file makes writers wait and lets readers in. `Session` adds the process that
serves pages in three builds (CGI, FastCGI, Apache).

Two traits of `_dbmFetch` matter here. It puts a backslash before each `\` and `$`, and in some builds before quotes
(`echo.c:302-332`). `StrtoAccess` takes them off patterns again, and so does `_dbmInsert`; but `AddRule` replaces a set by
what it fetched (`acc.c:181-198`), so that each rule that is added puts more slashes into the patterns that are there. Of
a password they are never taken off, and the one that is typed gets its own: a password with such a character never
matches, which is why passwords are `Words`, texts that stay as they are. And of a key that is not there the
flat build returns the static `content` of an earlier fetch (`db.c:956-991`). The screen has just fetched the password
(`conf.c:129`), so `AddFile` takes it for the page's set and inserts nothing: in a flat file only a page can have put a
set of its own. A resident process has fetched the address of a page for the refused when it served its last request
(`acc.c:410-415`), so for a page without a set it may apply no rules instead of the default set (`FetchedSets`). That
the flat `_dbmInsert` always appends (`db.c:632`) then comes to nothing here: what is inserted is the first of its key.

| variable | code |
|---|---|
| `phase` | where `php_main` is: data, open, access, a rule, the parser, the page, the end |
| `io` | `HeaderPrinted`, with history: how often the header went out, what else did, whether it was in front of the header |
| `report`, `exited`, `running` | `PrintErrors`, `ExitCalled`, whether `state` is another than 99 |
| `judge` | `CheckAccess`: rules, place, `allow`, and what became of the visit |
| `cwd`, `gsb`, `parsed` | the working directory, the last `stat` that worked, the file and size given to the parser |
| `exists`, `cfg`, `reads`, `writer` | the dbm file, its contents and who has it open |
| `pc`, `req`, `shown` | where each administrator's request is, what it is to do, the form in front of him |
| `asked` | the request and its visitor, and whether the process has fetched something for an earlier one (`content` of `db.c:973`) |
| `due`, `meant`, `blind` | history: the rule-set that should apply, those the administrators made, whether a form replaced what it had not shown |

Names of files are sequences of directories; `FixFilename` and `OpenFile` are operators on them, and so is `Target`, what
a name stands for. `Meaning` says what a rule-set means for a visitor, all of its rules at once; `CheckRule` goes through
them one at a time.

| property | fails with | because |
|---|---|---|
| `RulesKept` | kill; passfirst or slashes with adds; several administrators, unless they add rules to a flat file that is there | what a killed request had in hand is lost, and from a flat file, whose replace is two steps, what was there before too; `AddRule` copies two fields of a rule that has three (`acc.c:191`), and stores patterns with the slashes they were fetched with; a file that somebody writes is taken for missing and begun anew (`conf.c:89`), and a form replaces what it did not show (`acc.c:357`) |
| `RulesApplied` | the same; together; a page without a set of its own, from a flat file, in a process that has fetched before | with gdbm a file that is being written cannot be opened, and no file means no rules (`acc.c:392`); what an earlier fetch left is taken for the page's set (`acc.c:396`) |
| `OneHeader` | late, empty in CGI | `Header` takes the header for printed before it has looked at its argument (`head.c:44`) |
| `OneAnswer` | in CGI for a visitor who is asked for something | `ParserInit` undoes what `Exit` did (`lex.c:1204`), and the page follows the form |
| `FileFaithful` | script, relative, root, noslash | the size is that of the first look (`file.c:139`), the directory is changed and the name glued to that of the directory (`file.c:312`), a slash alone is lost, and what the index of a directory includes is looked for in the directory above, if the directory was named without a slash |
| `Served` | badpattern; in FastCGI missing, bans, saves | `continue` before the loop has gone on (`acc.c:422`); the process returns when a page cannot be shown (`main.c:101`) |

In the CGI builds (`Cgi`) a request goes through its own file names; the module is given an open file.

Left out: a wrong password for the screen, the addresses of the pages for those who are refused, what becomes of the data
of a request, `PATTERN_RESTRICT`, `~user` names. What a page itself fetches (`dbmfetch`) may leave other content behind
for the next request than an address; that a flat `_dbmFetch` frees memory of a pool, which some allocators notice
(`FetchDies` of `FlatFile`), is taken to go unnoticed here.

## Runs

All bounds are constants given in the `.cfg` files. Deadlock is checked in `control_plain` and `flat_map`. It is switched
off where the system may stop: in `control_any` after a parse error, in `DbmLock` when all processes are stuck behind a
lock that nobody will release (untidy builds only; for the tidy ones `WaitEnds` says more), in `Pool` when `malloc` has
nothing left, in `AccessLog` when `MaxHits` pages are done, in `Calls`, `Arrays` and `Databases` when the program has
crashed or hangs, in `Files` when the descriptors that were left behind are all there are, in `Session` when a FastCGI
process has ended.

| run | checks | shows |
|---|---|---|
| `control_plain` | `TypeOK`, `StateFaithful`, `StacksFaithful`, `NoErrorReported`, `Balanced` | on `PlainPages` the interpreter executes what C would, and every construct leaves the stacks as it found them |
| `control_any` | `SkippedStaysSkipped` | on any properly nested page, nothing inside a skipped construct is executed |
| `calls` | `TypeOK`, `TextFaithful`, `MarksFaithful`, `FramesEnd`, `Implements` | on plain pages every text is read to its own end and `Calls` implements `Scopes`; on all pages no frame is left behind |
| `calls_scope` | `NoStrayGlobal`, violated | `doc.html:1449`: "by default limited to the local function scope" |
| `dbm_locks` | `LckInv`, `WriterExclusion`, `IdleHoldsNothing`, `WaitEnds` | every kind of build at once: exclusion where locks work, nothing left over, no wait without end |
| `flat_map` | `FlatInv`, `IterationExact` | a writer and an unlocked reader: the file is a map, the iteration is complete |
| `pools` | `PoolInv`, `Implements`, `LeaksAtEndOnly` | no block twice, no overlap, `Pool` implements `Arena`, and exactly which blocks get lost |
| `access_log` | `CountedUnderLock`, `LogInv`, `LoggingEnds` | in which builds the count is exact, in which it only lags, that the last access never goes back, and that every page gets through |
| `arrays` | `ArraysInv`, `RoomHonest`, `ReadsFaithful`, `Implements` | the cursor stays in the array, values fit, count and key answer for the array, and `Arrays` implements `Lists` |
| `files` | `FilesInv`, `NothingLeft`, `StatFaithful`, `TagsStripped` | a number leads to the file that was opened, nothing stays open or unwritten, answers are about the file that was asked about |
| `databases` | `DatabasesInv`, `RanWhereWanted` | queries run where they were sent, results stay, and nothing that is freed is used |
| `session` | `RulesKept`, `RulesApplied`, `OneHeader`, `OneAnswer`, `FileFaithful`, `Served` | what is stored is what was made, what is applied is what is stored, the answer is the page, or what asks or refuses, behind one header, of the right file, and it ends |

`LckInv`, `FlatInv`, `PoolInv`, `LogInv`, `ArraysInv`, `FilesInv` and `DatabasesInv` each join the type invariant of a
module with invariants that are stated under names of their own.

Bounds, and why they are enough:
- **Control.** Depth 3 holds every pair of constructs inside any third and is the least at which a stack entry can be
  consumed by a construct that is neither the innermost nor the outermost. Two values of switch and case are equal or
  not. `MaxHeight` (12) is above what a balanced page of depth 3 can reach, so in `control_plain` it cuts nothing off,
  while a leaking handler would exceed it only after the properties fail. `control_any` needs height 3: its pages leak
  entries and would go on for ever; the proof in `ControlProofs` has neither bound.
- **Calls.** Two functions, one name and three texts at once: a page, a call and a call, include or eval in it. Pages
  are either plain or have all habits together. All properties also hold with four texts and one value, and for plain
  pages with four texts. Marks are bounded by `MaxDepth` too, which plain pages never reach.
- **DbmLock.** Two processes and two files: a circle of waiting processes (`LockRefused`) needs both. `MaxOpen = 1` is
  one lost file and one on the stack.
- **FlatFile.** Four records: a key replaced twice by the side of another. Symmetric in keys and contents, which are
  only compared or passed on.
- **Pool.** Three pools, as in the code. Sizes 0 (rounded to one byte), 3 (fits what is left), 5 (does not), with
  alignment 2 and least rest 4, make every branch of `php_palloc` and `php_new_block` happen; the same properties hold
  with four blocks and sizes {3, 5} or {0, 3}. Blocks are symmetric.
- **AccessLog.** Two processes and three requests: the third is the one that makes a new lock file while the other two
  hold or await the old one. `Attempts = 2` instead of 21, so that the keys of a second can run out; a day of one
  second, so that midnight is crossed.
- **Arrays.** Chains of three nodes and counts up to three: a cursor before, in and behind a part that is cut off. Longs
  have one bit, so that all operators stay in range; the same values as strings have two lengths, which is what tells
  room from no room. The habits are combined as widely as each property allows: all but those it excludes.
- **Files.** Two names and two descriptors: the number of a closed file is given out again while the other is open. One
  text has a tag over two lines and a string with `>` in it, the other a `?` in a tag, code over two lines and a `>` in the text.
- **Databases.** Two of everything that can be mistaken for another: hosts, databases, ports, results, connections.
  With three results of Postgres95 there is the table of types and two others.
- **Session.** A rule-set for all pages and one for the page, up to three rules of every kind; three visitors, who are
  matched by two or three patterns, or by one; two requests of administrators, by one or by two; nine files in and around
  the document root; a page of two steps, enough for an error, a header or an include in either order. The habits are
  combined in groups that meet: rules with each other, pages with errors, names with includes, administrators with
  pages. A request of an administrator is killed only with gdbm, which replaces a record as a whole, and where he is alone,
  and two administrators do not make a flat file at the same moment: what these would add is under `DbmLock`, `FlatFile`
  and `AccessLog` (a torn replace, a file emptied before it is locked).

Fairness:
- `Control`, `Calls`, `FlatFile`, `Pool`, `Arrays`, `Files`, `Databases`: none, only safety.
- `Session`: weak fairness of `Serve`: a process that has a request is scheduled. Nothing is assumed of requests to come
  or of the administrators. A page takes at most `MaxSteps` steps and then ends: that a page's own loops end is its
  author's business, and the program limits its time.
- `DbmLock`: weak fairness of the open call (a call returns) and of the exit of a process; strong fairness of the end of
  a page (PHP/FI kills a page that runs too long, and a page makes finitely many calls, but between them the action is
  disabled while a call is under way) and of a lock that is waited for (the kernel does not pass over a waiting process
  for ever).
- `AccessLog`: the same: weak for a read under way, strong for the steps of `Log` and for the lock. The steps of `Log`
  need strong fairness because a page may ask for its counters again and again in between; that it does so finitely
  often is what ends a page. The clock and the arrival of requests are not fair.

The mutants listed in `PROJECT.json` change one definition each in the way a slip in the C code would (an entry that is
not popped, a lock that is not waited for, a position not moved, a block left chained); each makes the property it is
listed for fail under the run's own configuration.

## Proofs

Checked by TLAPS (SMT, Zenon, LS4) for every value of the constants that satisfies the module's assumption.

| theorem | says | argument |
|---|---|---|
| `ControlTypes` | `Spec => []TypeOK` | one lemma per handler: what it appends has the type of the stack; the depth bound of `nest` gives the range of saved positions |
| `ControlSkips` | `Spec => []SkippedStaysSkipped`, for any page, not only the plain ones | see below |
| `ControlState` | `PlainPages => (Spec => []StateFaithful)`, for any depth | from `PlainInv`, see below |
| `ControlStacks` | `PlainPages => (Spec => []StacksFaithful)` | from the innermost construct's part of `PlainInv` |
| `ControlNoError` | `PlainPages => (Spec => []NoErrorReported)` | a part of `PlainInv` |
| `ControlBalanced` | `PlainPages => (Spec => Balanced)` | the closing handlers pop what `Own` says is the construct's |
| `DbmTypes` | `Spec => []TypeOK` | by action |
| `DbmInvariant` | `Spec => []DbmInv` | the inductive invariant of the next two |
| `DbmWriterExclusion` | `Spec => []WriterExclusion` for any number of processes and files | from `WritersLock` and `LocksAgree` |
| `DbmIdleHoldsNothing` | `Spec => []IdleHoldsNothing` | from `OneAtATime` |
| `DbmLckInv` | `Spec => []LckInv` for any number of processes and files | a step changes the `.lck` file of its own process only, and leaves it with an owner or removes it |
| `LogNeverAhead` | `LogSpec => []LogInv` (in `DatabasesProofs`), for any number of processes and hits | from `AheadInv`, see below |
| `LogCountsAll` | `LogSpec => []CountedUnderLock` | from `CountInv` |
| `CallsInvariant` | `Spec => []ReadInv` | the inductive invariant of the next two |
| `CallsText` | `Spec => []TextFaithful`, for any depth | from `ReaderOK` and `ShapeOK` |
| `CallsMarks` | `Spec => []MarksFaithful`, for any depth | from `MarksOK` and `ShapeOK` |
| `CallsFramesInv` | `Spec => []FramesInv` | the inductive invariant of the next one |
| `CallsFramesEnd` | `Spec => []FramesEnd`, for every page, not only the plain ones, and any depth | see below |
| `CallsTypesInv` | `Spec => []TypesInv` | the inductive invariant of the next one |
| `CallsTypes` | `Spec => []TypeOK`, for every page and any depth | one lemma per action; a tree that was written is not NULL |
| `CallsImplements` | `Spec => Implements`: `Calls` implements `Scopes` on plain pages, whose functions create no globals | see below |
| `FlatInvariant` | `Spec => []IInv` (of `FlatFileProofs`) | the inductive invariant of the next two |
| `FlatFaithful` | `Spec => []FlatInv`, if pages insert only keys that are not there (`~Presents`) | from `Once` |
| `FlatIteration` | `Spec => IterationExact`, under the same condition | from `Ahead` |
| `PoolInvariant` | `Spec => []IInv` (of `PoolProofs`) | the inductive invariant of the next three |
| `PoolOwned` | `Spec => []PoolInv` | a part of `IInv` |
| `PoolImplements` | `Spec => Implements`: `Pool` implements `Arena` | `php_palloc` cuts off behind everything in use, an `Alloc` is an `Ask`, a `Clear` is a `Clear` |
| `PoolLeaks` | `Spec => LeaksAtEndOnly` | by action |
| `ArraysInvariant` | `Spec => []IInv` (of `ArraysProofs`) | the inductive invariant of the next three |
| `ArraysSound` | `Spec => []ArraysInv` | a part of `IInv` |
| `ArraysRoom` | `Spec => []RoomHonest` | each action keeps the memory of a node or gives it as much as its value needs |
| `ArraysReads` | `Spec => []ReadsFaithful` | from the parts about the count and the current key |
| `ArraysImplements` | `Spec => Implements`: `Arrays` implements `Lists` on plain pages, if no array that is assigned has a key twice | see below |
| `DatabasesInvariant` | `Spec => []IInv` (of `DatabasesProofs`) | the inductive invariant of the next two |
| `DatabasesSound` | `Spec => []DatabasesInv` | from `Truthful`, `Held` and `TypesKept` |
| `QueriesRun` | `Spec => []RanWhereWanted` | from `Truthful` |
| `SessionHeaderInv` | `Spec => []HeaderInv` | the inductive invariant of the next one |
| `SessionOneHeader` | `Spec => []OneHeader`, for any files, rule-sets, visitors and administrators | see below |
| `SessionAnswerInv` | `Spec => []AnswerInv` | the inductive invariant of the next one |
| `SessionOneAnswer` | `Spec => []OneAnswer`, for any rule-sets, pages, visitors and builds | see below |
| `SessionKeptInv` | `Spec => []KeptInv` | the inductive invariant of the next one |
| `RulesAreKept` | `Spec => []RulesKept`, for any rule-sets and any number of administrators | see below |
| `SessionJudgeInv` | `Spec => []JudgeInv` | the inductive invariant of the next one |
| `RulesAreApplied` | `Spec => []RulesApplied`, for any rule-sets, visitors, earlier requests and number of administrators | see below |
| `SessionSeekInv` | `Spec => []SeekInv` | the inductive invariant of the next one |
| `FileIsFaithful` | `Spec => []FileFaithful`, for any files, names, requests and includes | see below |
| `HandlesLead` | `FilesSpec => []FilesInv` (in `SessionProofs`), for any names, pages and number of descriptors | from `ListInv`, see below |
| `NothingIsLeft` | `FilesSpec => []NothingLeft` | from `Distinct` and `Listed` |
| `StatIsFaithful` | `FilesSpec => []StatFaithful` | from `StatInv` |
| `TagsAreStripped` | `FilesSpec => []TagsStripped`, for any text of files | see below |

*Control.* `SkippedStaysSkipped` is not inductive. Whether a handler keeps it depends on `active` of the entry it
replaces and of the one below. `SkipInv` adds `Lay(cond)`, which says which entries may lie above which (a live case
entry above a dead one only within one switch; an else branch decided by `match`), `OpenBelow`, that a branch of an if
can turn on only above an entry that is on, and `AgainLive`, that a loop the lexer has jumped back into is still the one
on top. No depth or height is used in the argument.

The other properties speak of the tops of the stacks, and of pages as `PlainPages` describes them, which is what the run
`control_plain` checks. Whether the top is right after a construct is closed depends on what lies below it: so `PlainInv`
says of every open construct, not only of the innermost, which entries of each stack are its own. `At(j)` are the heights
of the six stacks when the j-th construct was entered; `Own(j)` says how many entries it has added to each up to
`At(j + 1)`, what they hold (an if: its condition, whether a branch was taken, its closing word; a live switch: its
value, and the condition of the case it is in; a live while: the position to go back to; a call: the heights at which
it was made), and that `StateAt` of the height above them is `live` of the construct; `Stacked`, that these segments lie on
one another in the order of nesting. `OwnKept` is the heart of the proof: a step that touches nothing below a height
leaves the constructs below as they were. Three lemmas follow from it, for a step that opens a construct (`EnterKeeps`),
changes the innermost one (`Changed`) or closes it (`Left`), and each handler is shown to be one of them. `PlainPages` excludes what breaks this: a skipped construct that a handler opens without
knowing that it is skipped, a case without break, a break elsewhere, a return out of an open construct; what happens on
those pages is checked by `control_any`.

*DbmLock.* `WriterExclusion` needs to know that a writer in these builds holds a lock (`WritersLock`), that the locks
any two handles hold are compatible (`LocksAgree`), and, for `lockf` builds, that no circle of waiting processes can
come up, as a tidy page has at most one file open while it waits (`OneAtATime`) and what it waits for is held by a
process that does not wait (`FlatWaits`): a refused `lockf` would go on without its lock. This is why `Excludes` has the
condition `Tidy` for the flat build with `lockf`.

*Calls.* `TextFaithful` says nothing of what `FilePop` will find. `ReadInv` adds, for plain pages, that every entry of
the file stack restores the text it was pushed for (`FilesOK`), and that files lie below calls, with an eval only on top
and in a file (`ShapeOK`): this is what makes the two variables `cur_func` and `eval_mode` enough to tell what ends.

On other pages they are not enough: an eval in a function, or a call in an evaluated text, makes `FilePop` take off
frames and marks that are not those of the text that ends. `FramesEnd` holds all the same, and says nothing of what
`FilePop` will do. `FramesOwed` bounds the frames at every depth k, by the calls among the k outermost texts together
with the inner texts for which a function is noted, whose ends will each take off a frame; `EvalNotes` says that the end
of an eval, which does not restore `cur_func`, passes on no less than what was noted.

For the refinement, `PlainTrees` adds to `ReadInv` what plain pages make of the trees: who calls has a tree, so that no
call ever works in that of the page (`~inMain`); there are as many frames as calls on top of the innermost file; only
the trees of calls have entries that are marked global or static, so that `SetVar` in the page's tree never goes in a
circle. The proof has a lemma for each effect on the trees (`PageWritten`, `StaticWritten`, `OwnWritten`, `LinkWritten`)
that says which step of `Scopes` it is, or that nothing that is seen has changed (`HiddenWritten`, `Stutters`); each
statement is shown to have one of them. So an `unset` is a `Set` to no value, a `global` of a variable that was unset a
`Set` to 0, and a second `static` of the same name no step at all.

*DbmLock, the lock files.* `LckHasOwner` says that a `.lck` file belongs to a page that writes or is opening to write.
`LckSupport` adds that none exists in a build without `NFS_HACK` and that a page at its end has nothing on its stack when
it does not log. `OneAtATime` then gives that a process that creates a file has no other, and so whatever it removes was
its own.

*AccessLog.* That the counter is not ahead of the log is not inductive with mSQL: the entry
comes first and the count later, by when the lock file may have been removed and others count at the same time. `AheadInv`
counts the processes that still owe a count (`Owed`): what the last record says, and what each process at its update
holds, stays below the entries by at least as many. An `Update` writes one more and owes one less. `Dense`, that the
entries of a second are numbered without gaps, makes each hit an entry of its own. `CountInv` is the exact count where
nothing disturbs it: one process at most is past `Lock`, it has the lock and knows as many hits as there are entries, and
while no record is wiped the last one does. Both fail for a log that is made anew, or with gdbm, which the conditions of
the properties leave out.

*Session.* `OneHeader` speaks of the end of a request only. `HeaderInv` says at every moment that the header is marked as
sent exactly when it is out, that nothing was printed before it (`Orderly`), that errors are reported until the page can
turn that off (a page that cannot be opened ends with an error, and it is this error that sends the header), and that
after `Exit` the header is out. The lemmas about `php_header`, `Error`, `Header`, `Printed` and `Exit` say that each keeps
`Orderly`; `Header` in the CGI program only where it is called with a string and before other output.

`OneAnswer` speaks of the end of a request, too, and does not hold by itself: that nothing of the page follows a form rests
on the parser being stopped. `AnswerInv` says that until the page begins the answer shows, beside errors, exactly the
forms of the judge, that `Exit` was called exactly if there is one, and that the parser is then stopped; and that the
page, unless a CGI program shows it to somebody who was asked, is at work only where there is no form and `Exit` was not
called (`Alternatives`). Each helper's lemma says what it adds to what is displayed.

`FileFaithful` compares what is parsed with what the name stands for, seen from the directory where the process started
or that of the page. `SeekInv` adds that the process is where it started, or was asked for an absolute name, until its
page is opened (`AtStart`), and in the directory of the page from then on (`AtHome`), so that every include starts from
there, and that the request is one that may be made (`Requested`). The lemmas follow `OpenFile` through its two looks:
`FirstFound`, that the folds over the names of an index give a file or nothing; `FirstLook`, that with a name that has
none of the habits of `Devious` the first look finds what the name stands for, with its size; `SecondLook`, that the look
beside the program, which is what would find another file, finds none.

`RulesKept` speaks of the moments when nobody writes. `KeptInv` says what holds in between: who is past the lock is the
writer and nobody else is (`Locked`); the file has the string of each set that is meant, but for the key that is being
replaced (`InStep`), and for that one the writer has it in hand (`Pending`); a file that is not there, or was only just
made, has nothing, and nothing is meant (`Fresh`); the default set, once it is there, begins with a rule, which asks for
no password where it must not (`DefaultFirst`, and `Ordered` of what is posted): that is what `AddRule` copies. Of an administrator who is
alone `UpToDate` says that the form in front of him shows what is meant until he posts it, or is about to be read anew;
with several this is false, and `blind` is what comes of it, which `Seeing` therefore rules out only for one, or where nothing is saved. `Plainly`, that no pattern in the file, in a form or in what is meant is given slashes, is what
makes a set that `AddRule` fetches and stores the set it was. `Leading`, that no set is without rules, neither in the file nor in a form, is for the judge, who
takes a set without rules for public.

Under it lies a theorem about the strings. `RoundTrip` says that what is written of any rule-set is read as that set:
`WriteAppend` and `ReadAppend` say what one more rule adds to the string and one more field to the state of the reader,
`ReadRule` that after the fields of a rule the reader is where it was with that rule at the end, and `Lengthwise`, from
the well-foundedness of the numbers, that what the empty sequence has and each sequence passes on to the next every
sequence has. `FirstRule` says that the two fields behind `pub` or `pri` are those of the first rule, if it has no
password, so that what `AddRule` appends is again the string of a set (`AddedIs`, and `AddedToNone` for a key that is not there): for sets of
plain rules (`PlainSets`), whose string `_dbmFetch` leaves as it is (`PlainWritten`, `BareFetched`).

`RulesApplied` compares what comes of a loop with what `Meaning` says of a whole set. `JudgeInv` says how far the loop has
come (`JudgedTo`): of the rules before the one it is at, the forms of those that are unanswered, the number that allow
less the number that ban, and whether the last one about the log, or about the counters, turns them on. For each of the
four there is a lemma about one rule more (`UnansweredNext`, `AllowedNext`, `LoggedNext`, `CountedNext`); `RuleJudged`
shows that each branch of `CheckRule` does that to the judge, and `VerdictJudges` that all rules together, and private,
are what `MeaningIs` says. That the set is the one that is meant rests on `KeptInv`: while a page is served nobody is in
the middle of a change, so that the file can be read, and has what is meant (`AccessBegins`), which is also what is
fetched where nothing else was fetched before, or the page has a set (`Told`).

*Files.* `HandlesFaithful` says of the numbers that a page has got that they lead to the streams they were given for.
`ListInv` says besides what the list at `fp_top` is: no number twice (`Distinct`), each an open descriptor (`AreOpen`),
no stream under another number than the page has for it (`Linked`), nothing to be written on pages that change nothing
(`Clean`); and `OneGone`, that of the streams the page believes to have one at most has no entry, which is why there is
always a new `gen` to tell streams apart. `Reached` is then `HandlesFaithful` for pages that use no number they have
closed. `LeftInv` is the other direction, that every open descriptor is in the list; `NothingLeft` follows by counting.
`StatInv` says that once a name is remembered the record is its own.

`TagsStripped` compares what `fgetss` takes out of one line after another with what `Marked` takes out of all lines at
once. `Matches` is the relation of the two after any character of a line: the same text, tag for tag, code for code, the
same brackets open, in a string together; `ScanMarks` says that a character keeps it that is no `?` in a tag and no `>` in
the text, and `LineRead` goes through a line with it, from where the line begins in text or in a tag. That a line begins
so is `TagInv`: the stream `inTag` stands in a tag, `fgetss_state` with it, and every other stream stands at a place in
the text. `RunPasses` is what allows to compare a line with a whole file: a fold over a sequence goes through what it
makes of every beginning of it.

*FlatFile.* What a lookup finds says nothing of the records that are not found. `IInv` is about all of them: `Waiting`
says that a record can be on its way to the end of the file only while all others are complete; `Once`, that a key is in
one record at most, or about to be appended and in none, and has what the map says; `Ahead`, that whatever an iteration
still owes lies before it and whatever lies before it may be returned. `Once` and `Ahead` need `~Presents`: with
`dbminsert` of a key that is there a second record comes into being (`db.c:632`), and neither theorem holds.

*Pool.* `PoolInv` does not say that a block on the free list is empty, nor that a pool that is asked has a block.
`Support` does: blocks are on the free list only as `malloc` gave them, none is filled beyond its size, the first block
of a chain has room for the header of the pool in front of `first_avail`, and a pool that is used, or asked for memory, has a chain. The proof is about injective sequences of blocks: a block that moves from the free list into a chain,
a chain that moves back whole.

*Arrays.* `IInv` has four parts: `Chain`, what the nodes are, on pages that do not sort also that each has the room it
believes to have; `Cursor`, where `next` and `prev` may stand, in the chain or in what was cut off it; `Marks`, the types
of the rest; `Counts`, that the count and the end that the variable remembers are those of the chain, on pages that
neither refill nor nest. For the refinement `PlainInv` adds that no key is twice in the chain and that what is deleted is a chain of one
node. An array that is assigned is a constant of the model, which `Others` may contain with a key twice; `PlainInv` says
that no array of a plain page is one of those, which is why the theorem may suppose it (`Apart`).

*Databases.* None of the properties is inductive: that a query runs where it was sent rests on what the program believes
of its connection. `Truthful` says how much of this is so, on which pages: the host unless the log connects for a page
that uses others; the ports, or that none are claimed; the database on pages that list no tables; that the connection is
open, if there is a database for the log. It is stated of the record `here`, so that the lemmas can follow a call through
the records it computes before the first variable changes (`FirstFits`, `MadeFits`, `SelectedFits`). `Held` makes the
results of the page those of the list, with different numbers below the next one; `TypesKept` gives the table of types a
number that the page has not got.

Assumptions: every module names what it assumes of its constants (`...Assumption`), and TLC evaluates all of these in
the runs. They say that sets are what they are called and that what marks an absence is none of them (`NoVal`, `None`, no
function); `PoolAssumption`, that the header of a pool fits into the rest that a block must have; `ArraysAssumption`, that
values are integers, of which numbers are ordered as such. `LogAssumption`, that processes are finitely many;
`FilesAssumption`, what the lines of a file are made of. `NamesAssumption` says what the habits
of `Devious` mean: a request without them, or an include of a page without them, names a directory with a slash at its
end and nothing else so, and if it is not found then there is nothing of that name beside the program either. It says
too that servers ask for absolute names. `ConfigsAssumption` says that the
files to begin with hold strings of rule-sets, none of them without rules, as the screen leaves them, the default set
among them, and none with slashes where the habit says so, and that `None` is no rule-set and no string; of
`AccessAssumption` the proofs use what it says of `Page`, `Server` and `None`, and of `SessionAssumption` that visitors'
passwords are texts. `TextsAssumption` is what is needed of `AddSlashes`: that `StripSlashes` undoes it, and that it leaves
`Words` alone.

Only model-checked: liveness (`WaitEnds`, `LoggingEnds`, `Served`), which is out of the prover's reach.

## Findings

Checked by a run of its own, as what the manual says and the code does not do: a function that calls another before it
has a variable goes on in the variables of the page (`calls_scope`). What else does not do what the manual, or its name,
says came up as a condition that a property needs; most of it is in the tables above. The manual contradicts the code in
these:
- a function that declares a variable global that the page does not have creates it by an assignment, unless the page
  has no variable at all (`var.c:134-143`), where "you cannot create new global variables from within a function"
  (`doc.html:1481-1482`): `Implements` fails on pages with the habit *creates*;
- the lock of an ndbm file is given up before the file is opened (`db.c:360`; `doc.html:1906`);
- `dbmclose` does not find the first file after a second `dbmopen` (`db.c:83`; `doc.html:1865`);
- `dbmfetch` of a key that is not there returns what was fetched before (`db.c:973`; `doc.html:1875`);
- `dbminsert` of a key that is there inserts a second record (`db.c:632`; `doc.html:1886`);
- `pg_getlastoid` still has the oid of an earlier insert after a query that gave rows or failed, as only a command that
  was executed sets it (`pg95.c:392-402`; `doc.html:2880-2884`); the oid is not in the model;
- the ends of constructs cannot always be written as `}` (`doc.html:1391`).

Others are at odds only with what the code is for: the mSQL log unlocks its lock file and then removes it, so that two
pages update at once (`log.c:729`, `815`); `PutEnv` in one page is seen by the next page of a process, and makes a query
compare a port with NULL (`msql.c:193`); a form shown by `CheckAccess` is followed by the page (`lex.c:1204`); a pattern
that is no regular expression is tried for ever (`acc.c:422`); a configuration that cannot be opened is made anew
(`conf.c:89`); a page found by way of `SCRIPT_NAME` is read to the size of another file (`file.c:139`); a query whose
connection is lost is reported as executed (`pg95.c:373`).

## Not modelled

The table of components in `PROJECT.json` gives the reason for each. Functions that calculate, format or call one
library function have no state to explore (`calc.c`, `string.c`, `echo.c`, `date.c`, `reg.c`, `gd.c`, ...). `parse.c` is
generated, `regexpr.c` is taken over from elsewhere. The scanner's characters are abstracted to tokens.

## Plan

What is left, in this order:

1. **WhileLines** (`lex.c:611`, `874`, `1221`): the byte positions by which loops are known, and the rest of the line
   that is kept; `Exit` at any depth of `Calls`; `Control` and `Calls` composed, each stack unwound once.
2. **DbmLock with FlatFile**: mode n empties the file before its lock is held; a kill between the writes of a record.
3. **Pool** with the quota `MaxDataSpace`, whose error ends the page in the middle of an allocation, and a `malloc` that
   fails.
4. **Data of a request** (`post.c`, `mime.c`): the variables made of it, arrays among them, over `Arrays`.

Abstract specifications worth stating: a map for `FlatFile` instead of its history variable, a numbered table for
`Files`, `Msql` and `Postgres`.

Proofs: of what these modules will say; every invariant and every action property of the modules there are is proved.
