-------------------------------- MODULE Files --------------------------------
(***************************************************************************)
(* The files, pipes and sockets that pages open (file.c, fsock.c), in a    *)
(* process that serves one page (CGI) or many (FastCGI, Apache): the list  *)
(* of open files, in which a page finds one by the number of its           *)
(* descriptor; the remembered answer of stat(); and the state of fgetss(), *)
(* which takes tags and code out of what it reads.                         *)
(*                                                                         *)
(* What a file holds is a sequence of lines, each a sequence of tokens.    *)
(* Nothing of what is written is read back.                                *)
(***************************************************************************)
EXTENDS Integers, Sequences, SequencesExt, FiniteSets

CONSTANTS
  Names,       \* of files, commands and hosts
  Lines(_),    \* what is read from a name
  ThisPage,    \* the name of the file of the page
  NoName, Free, \* no name; nothing is open under a number
  Builds,      \* subset of {"cgi", "fastcgi", "apache"}
  Pages,       \* what pages do: sets of habits
  MaxFd        \* bound: of the descriptors a process may have

(* stale: a number is used that the page has closed, or never had.  swap:  *)
(* a pipe is closed with fclose, or a file or a socket with pclose.        *)
(* leave: a page ends with files open.  refused: a socket gets no          *)
(* connection.  missing: a page asks about a file that is not there.       *)
(* self: the first file that it asks about is its own.  changes: files     *)
(* are written and changed.  wanders: another file is read, or the place   *)
(* changed, where a tag is open.  query: there is a ? in a tag.  spread:   *)
(* there is code over several lines.  bare: there is a > in the text.      *)
(* reads, asks: fgets() and fgetss(), or filesize() and its like, are      *)
(* called.                                                                 *)
AllHabits ==
  {"stale", "swap", "leave", "refused", "missing", "self", "changes", "wanders", "query", "spread",
   "bare", "reads", "asks"}

Fds    == 1..MaxFd
Kinds  == {"file", "pipe", "socket"}
Stats  == 0..2                 \* what stat() says of a file, 0 if there is none
Tokens == {"<", ">", "?", "(", ")", "q", "x"}   \* q is a quotation mark
Gens   == 1 .. 3 * MaxFd      \* names for streams, for the properties

ASSUME FilesAssumption ==
  /\ MaxFd \in Nat \ {0}
  /\ ThisPage \in Names /\ NoName \notin Names /\ Free \notin Kinds
  /\ \A n \in Names : Lines(n) \in Seq(Seq(Tokens))
  /\ Builds \subseteq {"cgi", "fastcgi", "apache"}
  /\ Pages \subseteq SUBSET AllHabits

VARIABLES
  fps,      \* fp_top: number, name, what it is, lines read, is something in the buffer?
  fds,      \* what the kernel has open under each number
  disk,     \* the stat record of each file
  statName, \* CurrentStatFile
  sb,       \* its stat record, a static variable: of which name, and the record
  tag,      \* fgetss_state: 0 in text, 1 in a tag, 2 in code
  held,     \* history: the numbers the page has got and not closed, with the stream
  inTag,    \* history: the stream in which fgetss() stopped inside a tag or code, 0 if none
  read,     \* history: what the last fgetss() returned, and what it should have
  lost,     \* history: has something written never come to its file?
  build, habits

filesVars == <<fps, fds, disk, statName, sb, tag, held, inTag, read, lost, build, habits>>
stats     == <<statName, sb>>
tags      == <<tag, inTag, read>>
fixed     == <<build, habits>>

Range0(s) == {s[i] : i \in DOMAIN s}
Ids       == {e.id : e \in Range0(fps)}

(* The first entry with the number, the one opened last.                   *)
FpAt(id)   == CHOOSE i \in DOMAIN fps : fps[i].id = id /\ \A j \in 1 .. i - 1 : fps[j].id # id
FpFind(id) == fps[FpAt(id)]

FpDelTop(id) == IF fps = <<>> THEN fps ELSE Tail(fps)
FpDel(id) == RemoveAt(fps, FpAt(id))

FpSet(id, e) == [fps EXCEPT ![FpAt(id)] = e]

Lowest  == CHOOSE fd \in Fds : fds[fd] = Free /\ \A d \in 1 .. fd - 1 : fds[d] # Free
CanOpen == \E fd \in Fds : fds[fd] = Free

NewGen == CHOOSE g \in Gens : g \notin {inTag} \union {e.gen : e \in Range0(fps)} \union {h.gen : h \in held}

(* The stat record of a file that was written, or whose rights changed.    *)
Touched(n) == [disk EXCEPT ![n] = IF @ = 1 THEN 2 ELSE 1]

(* A number that is not in the list is answered with an error.             *)
Uses(id) == id \in Ids

-----------------------------------------------------------------------------
(* Opening. *)

FpPush(n, kind) ==
  LET g == NewGen IN
  /\ CanOpen
  /\ fds' = [fds EXCEPT ![Lowest] = kind]
  /\ fps' = <<[id |-> Lowest, name |-> n, kind |-> kind, line |-> 0, dirty |-> FALSE, gen |-> g]>> \o fps
  /\ held' = held \union {[id |-> Lowest, gen |-> g]}

FopenKeepingTag(n) ==
  /\ disk[n] # 0
  /\ FpPush(n, "file")
  /\ inTag \in {e.gen : e \in Range0(fps)} => "wanders" \in habits
  /\ tag' = tag /\ inTag' = 0
  /\ UNCHANGED <<disk, stats, read, lost, fixed>>

(* fopen() also makes fgetss() start in text.                              *)
Fopen(n) ==
  /\ disk[n] # 0
  /\ FpPush(n, "file")
  /\ inTag \in {e.gen : e \in Range0(fps)} => "wanders" \in habits
  /\ tag' = 0 /\ inTag' = 0
  /\ UNCHANGED <<disk, stats, read, lost, fixed>>

(* With mode w: the file is emptied, or made.                              *)
FopenToWrite(n) ==
  /\ FpPush(n, "file")
  /\ inTag \in {e.gen : e \in Range0(fps)} => "wanders" \in habits
  /\ "changes" \in habits
  /\ disk' = Touched(n)
  /\ tag' = 0 /\ inTag' = 0
  /\ UNCHANGED <<stats, read, lost, fixed>>

Popen(n) ==
  /\ FpPush(n, "pipe")
  /\ UNCHANGED <<disk, stats, tags, lost, fixed>>

FSockOpen(n) ==
  /\ FpPush(n, "socket")
  /\ UNCHANGED <<disk, stats, tags, lost, fixed>>

(* No host, no connection or no stream: the socket stays open.             *)
FSockRefused ==
  /\ "refused" \in habits /\ CanOpen
  /\ fds' = [fds EXCEPT ![Lowest] = "socket"]
  /\ UNCHANGED <<fps, disk, stats, tags, held, lost, fixed>>

-----------------------------------------------------------------------------
(* Closing. *)

(* A number that was closed before may be that of another stream by now:   *)
(* the page does not know that it closes that one.  Bound: once, until the *)
(* page has closed its own.                                                *)
Releases(id) ==
  \/ held' = {h \in held : h.id # id}
  \/ /\ "stale" \in habits /\ \A h \in held : \E e \in Range0(fps) : e.gen = h.gen
     /\ held' = held

CloseEntryOnly(id) ==
  /\ fds' = [fds EXCEPT ![id] = Free]
  /\ disk' = IF FpFind(id).dirty THEN Touched(FpFind(id).name) ELSE disk
  /\ lost' = lost
  /\ fps' = fps
  /\ Releases(id)

CloseEntry(id) ==
  /\ fds' = [fds EXCEPT ![id] = Free]
  /\ disk' = IF FpFind(id).dirty THEN Touched(FpFind(id).name) ELSE disk
  /\ lost' = lost
  /\ fps' = FpDel(id)
  /\ Releases(id)

Fclose(id) ==
  /\ Uses(id)
  /\ FpFind(id).kind = "pipe" => "swap" \in habits
  /\ CloseEntry(id)
  /\ UNCHANGED <<stats, tags, fixed>>

(* The library's pclose may refuse what popen did not open: the entry is   *)
(* taken off the list all the same.                                        *)
Pclose(id) ==
  /\ Uses(id)
  /\ \/ FpFind(id).kind = "pipe" /\ CloseEntry(id)
     \/ FpFind(id).kind # "pipe" /\ "swap" \in habits /\ CloseEntry(id)
     \/ /\ FpFind(id).kind # "pipe" /\ "swap" \in habits
        /\ fps' = FpDel(id)
        /\ Releases(id)
        /\ lost' = (lost \/ FpFind(id).dirty)
        /\ UNCHANGED <<fds, disk>>
  /\ UNCHANGED <<stats, tags, fixed>>

-----------------------------------------------------------------------------
(* Reading. *)

(* One token of fgetss().  What br and lc count, brackets and quotation    *)
(* marks, they count from the beginning of the line.                       *)
Scan(s, t) ==
  CASE s.st = 0 /\ t = "<" -> [s EXCEPT !.st = 1, !.lc = "<"]
    [] s.st = 0 /\ t \notin {"<", ">"} -> [s EXCEPT !.out = Append(@, t)]
    [] s.st = 1 /\ t = ">" -> [s EXCEPT !.st = 0, !.lc = ">"]
    [] s.st = 1 /\ t = "?" -> [s EXCEPT !.st = 2, !.br = 0]
    [] s.st = 2 /\ t \in {"(", ")"} /\ s.lc # "q" ->
         [s EXCEPT !.lc = t, !.br = IF t = "(" THEN @ + 1 ELSE @ - 1]
    [] s.st = 2 /\ t = ">" /\ s.br = 0 /\ s.lc # "q" -> [s EXCEPT !.st = 0]
    [] s.st = 2 /\ t = "q" -> [s EXCEPT !.lc = IF @ = "q" THEN "none" ELSE "q"]
    [] OTHER -> s

Strip(st, line) == FoldLeft(Scan, [st |-> st, br |-> 0, lc |-> "none", out |-> <<>>], line)

(* The definition: a tag is what is between < and >, code what is between  *)
(* <? and the first > that is in no string and in no brackets.             *)
Text(n, k) == FoldLeft(LAMBDA all, line : all \o line, <<>>, SubSeq(Lines(n), 1, k))

Mark(s, t) ==
  CASE s.in = "text" /\ t = "<" -> [s EXCEPT !.in = "first"]
    [] s.in = "text" /\ t # "<" -> [s EXCEPT !.out = Append(@, t)]
    [] s.in = "first"           -> [s EXCEPT !.in = IF t = ">" THEN "text" ELSE IF t = "?" THEN "code" ELSE "tag"]
    [] s.in = "tag"             -> [s EXCEPT !.in = IF t = ">" THEN "text" ELSE @]
    [] s.in = "string"          -> [s EXCEPT !.in = IF t = "q" THEN "code" ELSE @]
    [] s.in = "code" /\ t = "q" -> [s EXCEPT !.in = "string"]
    [] s.in = "code" /\ t = "(" -> [s EXCEPT !.open = @ + 1]
    [] s.in = "code" /\ t = ")" -> [s EXCEPT !.open = @ - 1]
    [] s.in = "code" /\ t = ">" /\ s.open = 0 -> [s EXCEPT !.in = "text"]
    [] OTHER                    -> s

MarkAll(s) == FoldLeft(Mark, [in |-> "text", open |-> 0, out |-> <<>>], s)

Marked(n, k) == MarkAll(Text(n, k))

InText(n, k) == Marked(n, k).in = "text"

(* The text of a line of a file, from where the line begins.               *)
DueText(n, k) == LET before == Len(Marked(n, k - 1).out) IN
                 SubSeq(Marked(n, k).out, before + 1, Len(Marked(n, k).out))

(* Is there a t of which the definition says that it is in what, and which *)
(* of the habits are those of a file?                                      *)
Occurs(n, what, t) ==
  \E k \in DOMAIN Lines(n) : \E j \in DOMAIN Lines(n)[k] :
     /\ Lines(n)[k][j] = t
     /\ MarkAll(Text(n, k - 1) \o SubSeq(Lines(n)[k], 1, j - 1)).in = what

Traits(n) ==
  {h \in {"query", "spread", "bare"} :
     \/ h = "query"  /\ Occurs(n, "tag", "?")
     \/ h = "spread" /\ \E k \in 1 .. Len(Lines(n)) - 1 : Marked(n, k).in \in {"code", "string"}
     \/ h = "bare"   /\ Occurs(n, "text", ">")}

(* A page that does not wander moves between places outside of tags.       *)
Moves(e, k) == inTag = e.gen \/ ~InText(e.name, k) => "wanders" \in habits

Fgets(id) ==
  LET e == FpFind(id) IN
  /\ "reads" \in habits /\ Uses(id)
  /\ e.line < Len(Lines(e.name)) /\ Moves(e, e.line + 1)
  /\ fps' = FpSet(id, [e EXCEPT !.line = @ + 1])
  /\ UNCHANGED <<fds, disk, stats, tags, held, lost, fixed>>

(* rewind() and fseek() to the beginning of a line.                        *)
Fseek(id, k) ==
  LET e == FpFind(id) IN
  /\ "reads" \in habits /\ Uses(id) /\ e.kind = "file"
  /\ k \in 0 .. Len(Lines(e.name)) /\ Moves(e, k)
  /\ fps' = FpSet(id, [e EXCEPT !.line = k])
  /\ UNCHANGED <<fds, disk, stats, tags, held, lost, fixed>>

Fgetss(id) ==
  LET e == FpFind(id)
      r == Strip(tag, Lines(e.name)[e.line + 1]) IN
  /\ "reads" \in habits /\ Uses(id)
  /\ e.line < Len(Lines(e.name)) /\ Traits(e.name) \subseteq habits
  /\ inTag \notin {0, e.gen} => "wanders" \in habits
  /\ tag' = r.st
  /\ read' = [got |-> r.out, due |-> DueText(e.name, e.line + 1)]
  /\ inTag' = IF InText(e.name, e.line + 1) THEN 0 ELSE e.gen
  /\ fps' = FpSet(id, [e EXCEPT !.line = @ + 1])
  /\ UNCHANGED <<fds, disk, stats, held, lost, fixed>>

-----------------------------------------------------------------------------
(* Writing, and what changes files by their names. *)

(* What is written stays in the buffer of the stream.                      *)
Fputs(id) ==
  LET e == FpFind(id) IN
  /\ Uses(id)
  /\ e.kind = "file" /\ "changes" \in habits
  /\ fps' = FpSet(id, [e EXCEPT !.dirty = TRUE])
  /\ UNCHANGED <<fds, disk, stats, tags, held, lost, fixed>>

ChMod(n) ==
  /\ "changes" \in habits /\ disk[n] # 0
  /\ disk' = Touched(n)
  /\ UNCHANGED <<fps, fds, stats, tags, held, lost, fixed>>

Unlink(n) ==
  /\ "changes" \in habits
  /\ disk' = [disk EXCEPT ![n] = 0]
  /\ UNCHANGED <<fps, fds, stats, tags, held, lost, fixed>>

Rename(m, n) ==
  /\ "changes" \in habits /\ disk[m] # 0 /\ m # n
  /\ disk' = [Touched(n) EXCEPT ![m] = 0]
  /\ UNCHANGED <<fps, fds, stats, tags, held, lost, fixed>>

-----------------------------------------------------------------------------
(* filesize(), fileperms() and so on. *)

(* The Apache module starts with the page as the name that was asked last. *)
Remembered == IF statName = NoName /\ build = "apache" THEN ThisPage ELSE statName

Answer(n) ==
  IF n = Remembered THEN sb
  ELSE [name |-> n, rec |-> disk[n]]

FileFuncKeepingName(n) ==
  /\ "asks" \in habits
  /\ disk[n] = 0 => "missing" \in habits
  /\ statName = NoName /\ n = ThisPage => "self" \in habits
  /\ statName' = IF Remembered = NoName THEN n ELSE Remembered
  /\ sb' = IF n # Remembered /\ disk[n] # 0 THEN Answer(n) ELSE sb
  /\ UNCHANGED <<fps, fds, disk, tags, held, lost, fixed>>

(* The name is remembered before stat() is called, its answer only if the  *)
(* file is there.                                                          *)
FileFunc(n) ==
  /\ "asks" \in habits
  /\ disk[n] = 0 => "missing" \in habits
  /\ statName = NoName /\ n = ThisPage => "self" \in habits
  /\ statName' = IF n # Remembered THEN n ELSE Remembered
  /\ sb' = IF n # Remembered /\ disk[n] # 0 THEN Answer(n) ELSE sb
  /\ UNCHANGED <<fps, fds, disk, tags, held, lost, fixed>>

-----------------------------------------------------------------------------
(* The end of a request, and the next one.  Nothing closes the page's      *)
(* files: the kernel and exit() do when the process ends, and the          *)
(* processes that serve more pages forget the list.                        *)

Forget ==
  /\ fps' = <<>> /\ held' = {}
  /\ statName' = NoName
  /\ tag' = 0 /\ inTag' = 0 /\ read' = [got |-> <<>>, due |-> <<>>]
  /\ UNCHANGED fixed

LeaveBehind == fps # <<>> => "leave" \in habits

EndOfProcess ==
  /\ build = "cgi" /\ LeaveBehind
  /\ Forget
  /\ fds' = [fd \in Fds |-> Free]
  /\ sb' = [name |-> NoName, rec |-> 0]
  /\ disk' = [n \in Names |-> IF \E e \in Range0(fps) : e.name = n /\ e.dirty
                               THEN Touched(n)[n] ELSE disk[n]]
  /\ lost' = FALSE

EndOfRequest ==
  /\ build # "cgi" /\ LeaveBehind
  /\ Forget
  /\ lost' = (lost \/ \E e \in Range0(fps) : e.dirty)
  /\ UNCHANGED <<fds, disk, sb>>

-----------------------------------------------------------------------------

FilesInit ==
  /\ build \in Builds /\ habits \in Pages
  /\ fps = <<>> /\ fds = [fd \in Fds |-> Free]
  /\ disk \in IF {"missing", "changes"} \cap habits = {} THEN [Names -> {1}] ELSE [Names -> {0, 1}]
  /\ statName = NoName /\ sb = [name |-> NoName, rec |-> 0]
  /\ tag = 0 /\ inTag = 0 /\ read = [got |-> <<>>, due |-> <<>>]
  /\ held = {} /\ lost = FALSE

FilesNext ==
  \/ \E n \in Names :
       \/ Fopen(n) \/ FopenToWrite(n) \/ Popen(n) \/ FSockOpen(n)
       \/ ChMod(n) \/ Unlink(n) \/ FileFunc(n)
       \/ \E m \in Names : Rename(m, n)
  \/ FSockRefused
  \/ \E id \in Fds :
       \/ Fclose(id) \/ Pclose(id)
       \/ Fgets(id) \/ Fgetss(id) \/ Fputs(id)
       \/ \E k \in 0 .. 2 : Fseek(id, k)
  \/ EndOfProcess \/ EndOfRequest

FilesSpec == FilesInit /\ [][FilesNext]_filesVars

-----------------------------------------------------------------------------
(* Properties. *)

Avoids(H) == habits \cap H = {}

Entries == [id : Fds, name : Names, kind : Kinds, line : Nat, dirty : BOOLEAN, gen : Gens]

TypeOK ==
  /\ fps \in Seq(Entries) /\ fds \in [Fds -> Kinds \union {Free}]
  /\ disk \in [Names -> Stats]
  /\ statName \in Names \union {NoName} /\ sb \in [name : Names \union {NoName}, rec : Stats]
  /\ tag \in 0..2 /\ inTag \in Gens \union {0}
  /\ held \subseteq [id : Fds, gen : Gens] /\ lost \in BOOLEAN
  /\ build \in Builds /\ habits \in Pages

(* A number that a page has got from fopen, popen or fsockopen, and has    *)
(* not closed, leads to the stream that was opened, whatever else the page *)
(* opens and closes, in whatever order (FpPush, FpFind, FpDel).            *)
HandlesFaithful ==
  Avoids({"stale"}) => \A h \in held : h.id \in Ids /\ FpFind(h.id).gen = h.gen

(* The lists are of their types and each number the page holds leads to    *)
(* the file it was given for (file.c:585-625).                             *)
FilesInv == TypeOK /\ HandlesFaithful

(* Every open descriptor can be reached through the list and the list      *)
(* leads to open descriptors, each once, and nothing that is written gets  *)
(* lost: for pages that close things as they opened them and get every     *)
(* connection; the CGI program may leave files open, the resident ones may *)
(* not.                                                                    *)
NothingLeft ==
  Avoids({"refused", "swap"}) /\ (build # "cgi" => Avoids({"leave"})) =>
    /\ {fd \in Fds : fds[fd] # Free} = Ids
    /\ Cardinality(Ids) = Len(fps)
    /\ ~lost

(* filesize() and its like answer for the file that is asked about, where  *)
(* no file is missing and none changes; and in the Apache module, where    *)
(* the page does not ask about itself first.                               *)
StatFaithful ==
  Avoids({"missing", "changes"}) /\ (build = "apache" => Avoids({"self"}) /\ statName # NoName) =>
    \A n \in Names : Answer(n) = [name |-> n, rec |-> disk[n]]

(* fgetss() returns the text outside of tags and code, line by line, if no *)
(* other file is read meanwhile, and there is no ? in a tag, no code over  *)
(* several lines and no > in the text.                                     *)
TagsStripped == Avoids({"wanders", "query", "spread", "bare"}) => read.got = read.due
=============================================================================
