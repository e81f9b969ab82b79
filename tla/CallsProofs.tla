---------------------------- MODULE CallsProofs ----------------------------
(* Theorems about Calls, for every value of its constants: however deep    *)
(* the calls and includes of a plain page are, every text is read to its   *)
(* own end and no construct of a caller is undone; and on every page there *)
(* are no more frames of variables than calls being read.                  *)
EXTENDS Calls, SequenceTheorems, FiniteSetTheorems, TLAPS

-----------------------------------------------------------------------------
(* Stacks. *)

(* Pushing keeps the entries below; the new one is on top.                 *)
LEMMA Pushed ==
  ASSUME NEW T, NEW s \in Seq(T), NEW e \in T
  PROVE  /\ Append(s, e) \in Seq(T)
         /\ Len(Append(s, e)) = Len(s) + 1
         /\ Append(s, e)[Len(s) + 1] = e
         /\ \A i \in 1..Len(s) : Append(s, e)[i] = s[i]
BY AppendProperties

(* The stack below the top.                                                *)
LEMMA Popped ==
  ASSUME NEW T, NEW s \in Seq(T), s # <<>>
  PROVE  /\ Front(s) \in Seq(T)
         /\ Pop(s) = Front(s)
         /\ Len(s) \in Nat \ {0}
         /\ Len(Front(s)) = Len(s) - 1
         /\ \A i \in 1..Len(s) - 1 : Front(s)[i] = s[i]
         /\ Last(s) = s[Len(s)]
         /\ Last(s) \in T
<1>1. Len(s) \in Nat \ {0}
  BY EmptySeq
<1>2. \A i \in 1..Len(s) : s[i] \in T
  BY ElementOfSeq
<1>3. /\ Len(s) - 1 \in 0..Len(s)
      /\ \A i \in 1..Len(s) - 1 : s[i] \in T
  BY <1>1, <1>2
<1>4. /\ SubSeq(s, 1, Len(s) - 1) \in Seq(T)
      /\ Len(SubSeq(s, 1, Len(s) - 1)) = Len(s) - 1
      /\ \A i \in 1..Len(s) - 1 : SubSeq(s, 1, Len(s) - 1)[i] = s[i]
  <2> DEFINE n == Len(s) - 1
  <2>1. n \in 0..Len(s) /\ \A i \in 1..n : s[i] \in T
    BY <1>3
  <2> HIDE DEF n
  <2>2. /\ SubSeq(s, 1, n) \in Seq(T)
        /\ Len(SubSeq(s, 1, n)) = n
        /\ \A i \in 1..n : SubSeq(s, 1, n)[i] = s[i]
    BY <1>1, <2>1, SubSeqProperties
  <2>3. QED
    BY <2>2 DEF n
<1>5. QED
  BY <1>1, <1>2, <1>4 DEF Front, Last, Pop

-----------------------------------------------------------------------------
(* The inductive invariant.  TextFaithful says nothing of what FilePop     *)
(* will find on the file stack, nor which texts may be below which.        *)

Text   == [kind : Kinds, fn : Funcs \union {None}]
Saved  == [fn : Funcs \union {None}, size : Int \union Funcs, noFd : BOOLEAN]

OwnSize(i) == IF ctx[i].kind = "call" THEN ctx[i].fn ELSE i

(* A call has a function, another text has none.                           *)
CtxOK ==
  /\ ctx \in Seq(Text) /\ ctx # <<>>
  /\ \A i \in 1..Len(ctx) : (ctx[i].kind = "call") <=> (ctx[i].fn # None)

(* Files are below calls, and an eval is the innermost text, in a file.    *)
ShapeOK ==
  /\ fileSize \in 1..Len(ctx)
  /\ \A i \in 1..Len(ctx) : (ctx[i].kind = "file") <=> (i <= fileSize)
  /\ \A i \in 1..Len(ctx) : ctx[i].kind = "eval" => i = Len(ctx) /\ i = fileSize + 1

(* What is saved is what is to be restored.                                *)
Restores(entry, i) ==
  /\ entry.fn = ctx[i].fn /\ entry.size = OwnSize(i)
  /\ entry.noFd <=> (ctx[i].kind = "call")

FilesOK ==
  /\ files \in Seq(Saved) /\ Len(files) = Len(ctx) - 1
  /\ \A i \in 1..Len(files) : Restores(files[i], i)

MarksOK ==
  /\ marks \in Seq(Int) /\ Len(marks) = Len(ctx) - fileSize
  /\ \A i \in 1..Len(marks) : marks[i] = fileSize + i

ReaderOK ==
  /\ size = OwnSize(Len(ctx))
  /\ evalMode \in BOOLEAN
  /\ evalMode <=> (ctx[Len(ctx)].kind = "eval")
  /\ curFunc = ctx[Len(ctx)].fn
  /\ gfd \in BOOLEAN
  /\ gfd => ctx[Len(ctx)].kind = "call"

ReadOK  == CtxOK /\ ShapeOK /\ FilesOK /\ MarksOK /\ ReaderOK
ReadInv == Plain => ReadOK

(* A text that begins in a text that is read.                              *)
LEMMA CtxGrows ==
  ASSUME CtxOK, NEW e \in Text, (e.kind = "call") <=> (e.fn # None), ctx' = Append(ctx, e)
  PROVE  /\ CtxOK'
         /\ Len(ctx) \in Nat \ {0}
         /\ Len(ctx') = Len(ctx) + 1
         /\ ctx'[Len(ctx) + 1] = e
         /\ \A i \in 1..Len(ctx) : ctx'[i] = ctx[i]
<1>1. /\ ctx' \in Seq(Text) /\ Len(ctx') = Len(ctx) + 1
      /\ ctx'[Len(ctx) + 1] = e
      /\ \A i \in 1..Len(ctx) : ctx'[i] = ctx[i]
  BY Pushed DEF CtxOK
<1>2. Len(ctx) \in Nat \ {0}
  BY EmptySeq DEF CtxOK
<1>3. ctx' # <<>>
  BY <1>1, <1>2
<1>4. QED
  BY <1>1, <1>2, <1>3 DEF CtxOK

(* The text on top, and who may read in it.                                *)
LEMMA TopOfCtx ==
  ASSUME CtxOK
  PROVE  Len(ctx) \in Nat \ {0} /\ Top = ctx[Len(ctx)] /\ Top \in Text
BY Popped DEF CtxOK, Top

LEMMA PlainRead ==
  ASSUME ReadOK, Plain, NEW kind, MayRead(kind)
  PROVE  /\ Top.kind = "file" \/ (Top.kind = "call" /\ kind = "call")
         /\ Top.kind = "file" => fileSize = Len(ctx) /\ curFunc = None /\ gfd = FALSE
         /\ Top.kind = "call" => curFunc \in Funcs /\ curFunc = Top.fn /\ size = Top.fn /\ fileSize < Len(ctx)
<1>1. Len(ctx) \in Nat \ {0} /\ Top = ctx[Len(ctx)] /\ Top \in Text
  BY TopOfCtx DEF ReadOK
<1>2. Top.kind \in {"file", "eval", "call"} /\ Top.fn \in Funcs \union {None}
  BY <1>1 DEF Text, Kinds
<1>3. (Top.kind = "call") <=> (Top.fn # None)
  BY <1>1 DEF ReadOK, CtxOK
<1>4. Top.kind = "file" \/ (Top.kind = "call" /\ kind = "call")
  BY <1>2 DEF MayRead, Plain
<1>5. (Top.kind = "file") <=> (Len(ctx) <= fileSize)
  BY <1>1 DEF ReadOK, ShapeOK
<1>6. fileSize \in 1..Len(ctx)
  BY DEF ReadOK, ShapeOK
<1>7. curFunc = Top.fn /\ gfd \in BOOLEAN /\ (gfd => Top.kind = "call")
  BY <1>1 DEF ReadOK, ReaderOK
<1>8. Top.kind = "call" => size = Top.fn
  BY <1>1 DEF ReadOK, ReaderOK, OwnSize
<1>9. Top.kind = "file" => fileSize = Len(ctx)
  BY <1>1, <1>5, <1>6
<1>10. Top.kind = "call" => fileSize < Len(ctx)
  BY <1>1, <1>5, <1>6
<1>11. Top.kind = "file" => curFunc = None /\ gfd = FALSE
  BY <1>3, <1>7
<1>12. Top.kind = "call" => curFunc \in Funcs /\ curFunc = Top.fn
  BY <1>2, <1>3, <1>7
<1>13. QED
  BY <1>4, <1>8, <1>9, <1>10, <1>11, <1>12

(* Entries of the file stack and marks for the text that is left.          *)
LEMMA SavedOK ==
  ASSUME ReadOK, CtxOK', Len(ctx') = Len(ctx) + 1, Len(ctx) \in Nat \ {0},
         \A i \in 1..Len(ctx) : ctx'[i] = ctx[i],
         NEW sz, NEW noFd, FilePush(ctx[Len(ctx)].fn, sz, noFd),
         sz = OwnSize(Len(ctx)), noFd \in BOOLEAN, noFd <=> (ctx[Len(ctx)].kind = "call")
  PROVE  FilesOK'
<1>1. /\ files \in Seq(Saved) /\ Len(files) = Len(ctx) - 1
      /\ \A i \in 1..Len(files) : Restores(files[i], i)
  BY DEF ReadOK, FilesOK
<1> DEFINE n == Len(ctx)
           e == [fn |-> ctx[n].fn, size |-> sz, noFd |-> noFd]
<1>2. ctx[n] \in Text /\ ((ctx[n].kind = "call") <=> (ctx[n].fn # None))
  BY ElementOfSeq DEF ReadOK, CtxOK
<1>3. ctx[n].fn \in Funcs \union {None} /\ sz \in Int \union Funcs /\ noFd \in BOOLEAN
  BY <1>2 DEF Text, OwnSize
<1>4. e \in Saved
  BY <1>3 DEF Saved
<1>5. files' = Append(files, e)
  BY DEF FilePush
<1>6. /\ files' \in Seq(Saved) /\ Len(files') = n
      /\ files'[n] = e
      /\ \A i \in 1..n - 1 : files'[i] = files[i]
  <2>1. Len(files) + 1 = n
    BY <1>1
  <2> HIDE DEF e, n
  <2>2. QED
    BY <1>1, <1>4, <1>5, <2>1, Pushed
<1>7. \A entry, i : i \in 1..n /\ Restores(entry, i) => Restores(entry, i)'
  BY DEF Restores, OwnSize
<1>8. \A i \in 1..n : Restores(files[i], i)'
  <2> TAKE i \in 1..n
  <2>1. CASE i = n
    <3>1. Restores(e, n)
      BY DEF Restores
    <3>2. QED
      BY <1>6, <1>7, <2>1, <3>1
  <2>2. CASE i # n
    <3>1. i \in 1..n - 1 /\ i \in 1..Len(files)
      BY <1>1, <2>2
    <3>2. QED
      BY <1>1, <1>6, <1>7, <3>1
  <2>3. QED
    BY <2>1, <2>2
<1>9. QED
  BY <1>6, <1>8 DEF FilesOK

(* A mark for a text that begins.                                          *)
LEMMA MarkSet ==
  ASSUME MarksOK, fileSize \in 1..Len(ctx), Len(ctx) \in Nat, Len(ctx') = Len(ctx) + 1,
         fileSize' = fileSize, marks' = Append(marks, Len(ctx) + 1)
  PROVE  MarksOK'
<1>1. marks \in Seq(Int) /\ Len(marks) = Len(ctx) - fileSize /\ Len(ctx) + 1 \in Int
  BY DEF MarksOK
<1> DEFINE m == Append(marks, Len(ctx) + 1)
<1>2. /\ m \in Seq(Int) /\ Len(m) = Len(marks) + 1
      /\ m[Len(marks) + 1] = Len(ctx) + 1
      /\ \A i \in 1..Len(marks) : m[i] = marks[i]
  BY ONLY <1>1, Pushed
<1> HIDE DEF m
<1>3. Len(marks) \in Nat /\ fileSize \in Int /\ Len(ctx) = fileSize + Len(marks)
  BY <1>1
<1>4. \A i \in 1..Len(marks) : marks[i] = fileSize + i
  BY DEF MarksOK
<1>5. \A i \in 1..Len(m) : m[i] = fileSize + i
  <2> TAKE i \in 1..Len(m)
  <2>1. CASE i = Len(marks) + 1
    BY <1>2, <1>3, <2>1
  <2>2. CASE i # Len(marks) + 1
    <3>1. i \in 1..Len(marks)
      BY <1>2, <1>3, <2>2
    <3>2. QED
      BY <1>2, <1>4, <3>1
  <2>3. QED
    BY <2>1, <2>2
<1>6. Len(m) = Len(ctx') - fileSize
  BY <1>2, <1>3
<1>7. marks' = m
  BY DEF m
<1>8. QED
  BY <1>2, <1>5, <1>6, <1>7 DEF MarksOK

LEMMA IncludeReads ==
  ASSUME ReadOK, Plain, Include
  PROVE  ReadOK'
<1> DEFINE e == [kind |-> "file", fn |-> None]
<1>1. /\ MayRead("file") /\ ctx' = Append(ctx, e)
      /\ size' = Len(ctx) + 1 /\ fileSize' = Len(ctx) + 1 /\ gfd' = FALSE
      /\ UNCHANGED <<evalMode, curFunc, marks>>
      /\ FilePush(None, fileSize, gfd)
  BY DEF Include, Read, Depth
<1>2. e \in Text /\ ((e.kind = "call") <=> (e.fn # None))
  BY DEF Text, Kinds
<1>3. /\ CtxOK' /\ Len(ctx) \in Nat \ {0} /\ Len(ctx') = Len(ctx) + 1
      /\ ctx'[Len(ctx) + 1] = e
      /\ \A i \in 1..Len(ctx) : ctx'[i] = ctx[i]
  BY <1>1, <1>2, CtxGrows DEF ReadOK
<1>4. /\ Top = ctx[Len(ctx)] /\ Top.kind = "file" /\ fileSize = Len(ctx)
      /\ curFunc = None /\ gfd = FALSE /\ Top.fn = None
  BY <1>1, PlainRead, TopOfCtx DEF ReadOK, ReaderOK
<1>5. ShapeOK'
  BY <1>1, <1>3, <1>4 DEF ReadOK, ShapeOK
<1>6. FilesOK'
  BY <1>1, <1>3, <1>4, SavedOK DEF OwnSize
<1>7. MarksOK'
  BY <1>1, <1>3, <1>4 DEF ReadOK, MarksOK
<1>8. ReaderOK'
  <2>1. evalMode \in BOOLEAN /\ ~evalMode
    BY <1>4 DEF ReadOK, ReaderOK
  <2>2. evalMode' \in BOOLEAN /\ ~evalMode'
    BY <1>1, <2>1
  <2>3. ctx'[Len(ctx')].kind = "file" /\ ctx'[Len(ctx')].fn = None
    BY <1>3
  <2>4. size' = OwnSize(Len(ctx))' /\ curFunc' = None /\ gfd' = FALSE
    BY <1>1, <1>3, <1>4, <2>3 DEF OwnSize
  <2>5. QED
    BY <2>2, <2>3, <2>4 DEF ReaderOK
<1>9. QED
  BY <1>3, <1>5, <1>6, <1>7, <1>8 DEF ReadOK

LEMMA EvalReads ==
  ASSUME ReadOK, Plain, Eval
  PROVE  ReadOK'
<1> DEFINE e == [kind |-> "eval", fn |-> None]
<1>1. /\ MayRead("eval") /\ ctx' = Append(ctx, e)
      /\ size' = Len(ctx) + 1 /\ evalMode' = TRUE /\ marks' = Append(marks, Len(ctx) + 1)
      /\ UNCHANGED <<fileSize, gfd, curFunc>>
      /\ FilePush(None, fileSize, gfd)
  BY DEF Eval, Read, Depth
<1>2. e \in Text /\ ((e.kind = "call") <=> (e.fn # None))
  BY DEF Text, Kinds
<1>3. /\ CtxOK' /\ Len(ctx) \in Nat \ {0} /\ Len(ctx') = Len(ctx) + 1
      /\ ctx'[Len(ctx) + 1] = e
      /\ \A i \in 1..Len(ctx) : ctx'[i] = ctx[i]
  BY <1>1, <1>2, CtxGrows DEF ReadOK
<1>4. /\ Top = ctx[Len(ctx)] /\ Top.kind = "file" /\ fileSize = Len(ctx)
      /\ curFunc = None /\ gfd = FALSE /\ Top.fn = None
  <2>1. Top = ctx[Len(ctx)] /\ curFunc = Top.fn
    BY TopOfCtx DEF ReadOK, ReaderOK
  <2>2. MayRead("eval")
    BY <1>1
  <2>3. /\ Top.kind = "file" \/ (Top.kind = "call" /\ "eval" = "call")
        /\ Top.kind = "file" => fileSize = Len(ctx) /\ curFunc = None /\ gfd = FALSE
    BY ONLY ReadOK, Plain, <2>2, PlainRead
  <2>4. QED
    BY <2>1, <2>3
<1>5. ShapeOK'
  BY <1>1, <1>3, <1>4 DEF ReadOK, ShapeOK
<1>6. FilesOK'
  BY <1>1, <1>3, <1>4, SavedOK DEF OwnSize
<1>7. MarksOK'
  BY <1>1, <1>3, MarkSet DEF ReadOK, ShapeOK
<1>8. ReaderOK'
  BY <1>1, <1>3, <1>4 DEF ReadOK, ReaderOK, OwnSize
<1>9. QED
  BY <1>3, <1>5, <1>6, <1>7, <1>8 DEF ReadOK

LEMMA CallReads ==
  ASSUME ReadOK, Plain, NEW f \in Funcs, NEW args, Call(f, args)
  PROVE  ReadOK'
<1> DEFINE e == [kind |-> "call", fn |-> f]
<1>1. /\ MayRead("call") /\ ctx' = Append(ctx, e)
      /\ size' = f /\ curFunc' = f /\ marks' = Append(marks, Len(ctx) + 1)
      /\ UNCHANGED <<fileSize, gfd, evalMode>>
      /\ IF curFunc = None THEN FilePush(None, fileSize, gfd) ELSE FilePush(curFunc, size, TRUE)
  BY DEF Call, Read, Depth
<1>2. e \in Text /\ ((e.kind = "call") <=> (e.fn # None))
  BY CallsAssumption DEF Text, Kinds
<1>3. /\ CtxOK' /\ Len(ctx) \in Nat \ {0} /\ Len(ctx') = Len(ctx) + 1
      /\ ctx'[Len(ctx) + 1] = e
      /\ \A i \in 1..Len(ctx) : ctx'[i] = ctx[i]
  BY <1>1, <1>2, CtxGrows DEF ReadOK
<1>4. /\ Top = ctx[Len(ctx)] /\ curFunc = Top.fn
      /\ Top.kind = "file" \/ Top.kind = "call"
      /\ Top.kind = "file" => fileSize = Len(ctx) /\ curFunc = None /\ gfd = FALSE
      /\ Top.kind = "call" => curFunc # None /\ size = Top.fn
  BY <1>1, PlainRead, TopOfCtx, CallsAssumption DEF ReadOK, ReaderOK
<1>5. ShapeOK'
  <2>1. /\ fileSize \in 1..Len(ctx)
        /\ \A i \in 1..Len(ctx) : (ctx[i].kind = "file") <=> (i <= fileSize)
        /\ \A i \in 1..Len(ctx) : ctx[i].kind # "eval"
    BY <1>3, <1>4 DEF ReadOK, ShapeOK
  <2>2. /\ fileSize' = fileSize /\ Len(ctx') = Len(ctx) + 1
        /\ ctx'[Len(ctx) + 1].kind = "call"
        /\ \A i \in 1..Len(ctx) : ctx'[i].kind = ctx[i].kind
    BY <1>1, <1>3
  <2>3. \A i \in 1..Len(ctx') : i \in 1..Len(ctx) \/ i = Len(ctx) + 1
    BY <1>3
  <2>4. ~(Len(ctx) + 1 <= fileSize)
    BY <1>3, <2>1
  <2>5. \A i \in 1..Len(ctx') : (ctx'[i].kind = "file") <=> (i <= fileSize')
    BY <2>1, <2>2, <2>3, <2>4
  <2>6. \A i \in 1..Len(ctx') : ctx'[i].kind # "eval"
    BY <2>1, <2>2, <2>3
  <2>7. fileSize' \in 1..Len(ctx')
    BY <1>3, <2>1, <2>2
  <2>8. QED
    BY <2>5, <2>6, <2>7 DEF ShapeOK
<1>6. FilesOK'
  <2>1. CASE Top.kind = "file"
    BY <1>1, <1>3, <1>4, <2>1, SavedOK DEF OwnSize
  <2>2. CASE Top.kind = "call"
    BY <1>1, <1>3, <1>4, <2>2, SavedOK DEF OwnSize
  <2>3. QED
    BY <1>4, <2>1, <2>2
<1>7. MarksOK'
  BY <1>1, <1>3, MarkSet DEF ReadOK, ShapeOK
<1>8. ReaderOK'
  BY <1>1, <1>3, <1>4 DEF ReadOK, ReaderOK, OwnSize
<1>9. QED
  BY <1>3, <1>5, <1>6, <1>7, <1>8 DEF ReadOK

LEMMA IncludeFailsReads ==
  ASSUME ReadOK, Plain, IncludeFails
  PROVE  ReadOK'
<1>1. fileSize' = fileSize
  BY DEF IncludeFails, Plain
<1>2. UNCHANGED <<size, gfd, evalMode, curFunc, files, marks, ctx>>
  BY DEF IncludeFails
<1>3. QED
  BY <1>1, <1>2 DEF ReadOK, CtxOK, ShapeOK, FilesOK, Restores, MarksOK, ReaderOK, OwnSize

(* FilePop restores what was there before the text began.                  *)
LEMMA EndReads ==
  ASSUME ReadOK, Plain, End
  PROVE  ReadOK'
<1> DEFINE n == Len(ctx) - 1
           top == Last(files)
<1>1. /\ files # <<>> /\ ctx' = Front(ctx) /\ files' = Front(files)
      /\ gfd' = top.noFd /\ evalMode' = FALSE
  BY DEF End
<1>2. /\ ctx' \in Seq(Text) /\ Len(ctx') = n
      /\ \A i \in 1..n : ctx'[i] = ctx[i]
      /\ Len(ctx) \in Nat \ {0}
  BY <1>1, Popped DEF ReadOK, CtxOK
<1>3. /\ files \in Seq(Saved) /\ Len(files) = n
      /\ \A i \in 1..n : Restores(files[i], i)
  BY DEF ReadOK, FilesOK
<1>4. /\ files' \in Seq(Saved) /\ Len(files') = n - 1 /\ n \in Nat \ {0}
      /\ \A i \in 1..n - 1 : files'[i] = files[i]
      /\ top = files[n]
  <2>1. Len(files) = n /\ files \in Seq(Saved) /\ files # <<>>
    BY <1>1, <1>3
  <2> HIDE DEF n
  <2>2. QED
    BY <1>1, <2>1, Popped
<1>5. /\ top.fn = ctx[n].fn /\ top.size = OwnSize(n)
      /\ top.noFd \in BOOLEAN /\ (top.noFd <=> (ctx[n].kind = "call"))
  <2>1. Restores(top, n) /\ top \in Saved
    BY <1>3, <1>4, ElementOfSeq
  <2>2. QED
    BY <2>1 DEF Restores, Saved
<1>6. CtxOK'
  BY <1>2, <1>4, EmptySeq DEF ReadOK, CtxOK
<1>7. FilesOK'
  <2>1. \A entry, i : i \in 1..n - 1 /\ Restores(entry, i) => Restores(entry, i)'
    BY <1>2, <1>4 DEF Restores, OwnSize
  <2>2. QED
    <3>1. \A i \in 1..n - 1 : Restores(files[i], i)'
      BY <1>3, <1>4, <2>1
    <3>2. Len(files') = n - 1 /\ Len(ctx') = n /\ files' \in Seq(Saved)
      BY <1>2, <1>4
    <3> HIDE DEF n
    <3>3. QED
      BY <3>1, <3>2 DEF FilesOK
<1>8. /\ ctx[n] \in Text /\ ctx[n + 1] \in Text
      /\ (ctx[n].kind = "call") <=> (ctx[n].fn # None)
      /\ (ctx[n + 1].kind = "call") <=> (ctx[n + 1].fn # None)
  BY <1>2, <1>4, ElementOfSeq DEF ReadOK, CtxOK
<1>9. /\ fileSize \in 1..n + 1
      /\ (ctx[n].kind = "file") <=> (n <= fileSize)
      /\ (ctx[n + 1].kind = "file") <=> (n + 1 <= fileSize)
      /\ ctx[n].kind # "eval"
      /\ ctx[n + 1].kind = "eval" => n = fileSize
  BY <1>2, <1>4 DEF ReadOK, ShapeOK
<1>10. /\ evalMode \in BOOLEAN
       /\ evalMode <=> (ctx[n + 1].kind = "eval")
       /\ curFunc = ctx[n + 1].fn
  BY <1>2 DEF ReadOK, ReaderOK
<1>11. /\ size' = OwnSize(n)
       /\ curFunc' = ctx[n].fn
       /\ fileSize' = IF fileSize = n + 1 THEN n ELSE fileSize
       /\ marks' = IF fileSize = n + 1 THEN marks ELSE Pop(marks)
  <2>1. CASE ctx[n + 1].kind = "file"
    <3>1. ~evalMode /\ curFunc = None /\ ~Unwinds /\ fileSize = n + 1 /\ ctx[n].kind = "file"
      BY <1>4, <1>8, <1>9, <1>10, <2>1 DEF Unwinds
    <3>2. marks' = marks
      BY <3>1 DEF End
    <3>3. /\ size' = IF top.fn = None THEN top.size ELSE top.fn
          /\ fileSize' = IF top.noFd THEN fileSize ELSE top.size
          /\ curFunc' = top.fn
      BY <3>1 DEF End
    <3>4. size' = OwnSize(n) /\ curFunc' = ctx[n].fn /\ fileSize' = n
      BY <1>5, <1>8, <3>1, <3>3 DEF OwnSize
    <3>5. QED
      BY <3>1, <3>2, <3>4
  <2>2. CASE ctx[n + 1].kind = "eval"
    <3>1. evalMode /\ curFunc = None /\ ~Unwinds /\ fileSize = n /\ ctx[n].kind = "file"
      BY <1>4, <1>8, <1>9, <1>10, <2>2 DEF Unwinds
    <3>2. size' = top.size /\ marks' = Pop(marks) /\ curFunc' = curFunc /\ fileSize' = fileSize
      BY <3>1 DEF End
    <3>3. QED
      BY <1>4, <1>5, <1>8, <3>1, <3>2 DEF OwnSize
  <2>3. CASE ctx[n + 1].kind = "call"
    <3>1. ~evalMode /\ curFunc # None /\ Unwinds /\ fileSize <= n
      BY <1>4, <1>8, <1>9, <1>10, <2>3 DEF Unwinds
    <3>2. marks' = Pop(marks)
      BY <3>1 DEF End
    <3>3. /\ size' = IF top.fn = None THEN top.size ELSE top.fn
          /\ fileSize' = IF top.noFd THEN fileSize ELSE top.size
          /\ curFunc' = top.fn
      BY <3>1 DEF End
    <3>4. CASE ctx[n].kind = "file"
      <4>1. fileSize = n
        BY <1>4, <1>9, <3>1, <3>4
      <4>2. size' = n /\ fileSize' = n /\ curFunc' = ctx[n].fn /\ OwnSize(n) = n
        BY <1>5, <1>8, <3>3, <3>4 DEF OwnSize
      <4>3. QED
        BY <1>4, <3>2, <4>1, <4>2
    <3>5. CASE ctx[n].kind # "file"
      <4>1. ctx[n].kind = "call"
        BY <1>8, <1>9, <3>5 DEF Text, Kinds
      <4>2. size' = OwnSize(n) /\ fileSize' = fileSize /\ curFunc' = ctx[n].fn
        BY <1>5, <1>8, <3>3, <4>1 DEF OwnSize
      <4>3. fileSize # n + 1
        BY <1>4, <1>9, <3>1
      <4>4. QED
        BY <3>2, <4>2, <4>3
    <3>6. QED
      BY <3>4, <3>5
  <2>4. QED
    BY <1>8, <2>1, <2>2, <2>3 DEF Text, Kinds
<1>12. ShapeOK'
  BY <1>2, <1>4, <1>9, <1>11 DEF ReadOK, ShapeOK
<1>13. MarksOK'
  <2>1. /\ marks \in Seq(Int) /\ Len(marks) = n + 1 - fileSize
        /\ \A i \in 1..Len(marks) : marks[i] = fileSize + i
    <3>1. MarksOK /\ n + 1 = Len(ctx)
      BY <1>2 DEF ReadOK
    <3>2. marks \in Seq(Int) /\ \A i \in 1..Len(marks) : marks[i] = fileSize + i
      BY <3>1 DEF MarksOK
    <3>3. Len(marks) = Len(ctx) - fileSize
      BY <3>1 DEF MarksOK
    <3>4. Len(marks) = n + 1 - fileSize
      BY <1>2, <1>9, <3>3
    <3>5. QED
      BY <3>2, <3>4
  <2>2. CASE fileSize = n + 1
    BY <1>2, <1>4, <1>11, <2>1, <2>2 DEF MarksOK
  <2>3. CASE fileSize # n + 1
    <3>1. marks # <<>> /\ marks' = Pop(marks) /\ fileSize' = fileSize
      BY <1>4, <1>9, <1>11, <2>1, <2>3
    <3>2. /\ marks' \in Seq(Int) /\ Len(marks') = Len(marks) - 1
          /\ \A i \in 1..Len(marks) - 1 : marks'[i] = marks[i]
      <4>1. marks \in Seq(Int) /\ marks # <<>>
        BY <2>1, <3>1
      <4>2. /\ Front(marks) \in Seq(Int) /\ Pop(marks) = Front(marks)
            /\ Len(Front(marks)) = Len(marks) - 1
            /\ \A i \in 1..Len(marks) - 1 : Front(marks)[i] = marks[i]
        BY ONLY <4>1, Popped
      <4>3. QED
        BY <3>1, <4>2
    <3>3. Len(marks) \in Nat /\ fileSize \in Int /\ n \in Int /\ Len(ctx') = n
      BY <1>2, <1>4, <1>9, <2>1
    <3>4. Len(marks') = Len(ctx') - fileSize'
      BY <2>1, <3>1, <3>2, <3>3
    <3>5. \A i \in 1..Len(marks') : marks'[i] = fileSize' + i
      BY <2>1, <3>1, <3>2, <3>3
    <3>6. QED
      BY <3>2, <3>4, <3>5 DEF MarksOK
  <2>4. QED
    BY <2>2, <2>3
<1>14. ReaderOK'
  <2>1. ctx'[n] = ctx[n] /\ Len(ctx') = n
    BY <1>2, <1>4
  <2>2. size' = OwnSize(Len(ctx))' /\ curFunc' = ctx'[Len(ctx')].fn
    BY <1>11, <2>1 DEF OwnSize
  <2>3. evalMode' = FALSE /\ ctx'[Len(ctx')].kind # "eval"
    BY <1>1, <1>9, <2>1
  <2>4. gfd' \in BOOLEAN /\ (gfd' => ctx'[Len(ctx')].kind = "call")
    BY <1>1, <1>5, <2>1
  <2>5. QED
    BY <2>2, <2>3, <2>4 DEF ReaderOK
<1>15. QED
  BY <1>6, <1>7, <1>12, <1>13, <1>14 DEF ReadOK

(* Statements on variables leave the texts alone.                          *)
LEMMA StatementsRead ==
  ASSUME ReadOK, UNCHANGED <<reader, ctx>>
  PROVE  ReadOK'
BY DEF ReadOK, CtxOK, ShapeOK, FilesOK, Restores, MarksOK, ReaderOK, OwnSize, reader

LEMMA ReadInit ==
  ASSUME Init
  PROVE  ReadInv
<1> DEFINE file == [kind |-> "file", fn |-> None]
<1>1. file \in Text /\ ctx = <<file>> /\ fileSize = 1
  BY DEF Init, Text, Kinds
<1>2. ctx \in Seq(Text) /\ Len(ctx) = 1 /\ ctx[1] = file /\ ctx # <<>>
  BY <1>1
<1>3. CtxOK
  BY <1>2 DEF CtxOK
<1>4. ShapeOK
  BY <1>1, <1>2 DEF ShapeOK
<1>5. FilesOK
  BY <1>2 DEF FilesOK, Init
<1>6. MarksOK
  BY <1>1, <1>2 DEF MarksOK, Init
<1>7. ReaderOK
  BY <1>2 DEF ReaderOK, OwnSize, Init
<1>8. QED
  BY <1>3, <1>4, <1>5, <1>6, <1>7 DEF ReadInv, ReadOK

LEMMA ReadStep ==
  ASSUME ReadInv, [Next]_vars
  PROVE  ReadInv'
<1>1. UNCHANGED habits
  BY DEF Next, vars, page, Runs, Set, UnSet, Global, StaticVar, Include, IncludeFails, Eval, Call, End
<1>2. SUFFICES ASSUME Plain, ReadOK
               PROVE  ReadOK'
  BY <1>1 DEF ReadInv, Plain
<1>3. ASSUME NEW x \in Names, NEW v \in Vals, Set(x, v) PROVE ReadOK'
  BY <1>2, <1>3, StatementsRead DEF Set
<1>4. ASSUME NEW x \in Names, UnSet(x) PROVE ReadOK'
  <2>1. UNCHANGED <<reader, ctx>>
    BY <1>4 DEF UnSet
  <2>2. QED
    BY <1>2, <2>1, StatementsRead
<1>5. ASSUME NEW x \in Names, Global(x) PROVE ReadOK'
  <2>1. UNCHANGED <<reader, ctx>>
    BY <1>5 DEF Global
  <2>2. QED
    BY <1>2, <2>1, StatementsRead
<1>6. ASSUME NEW x \in Names, NEW v \in Vals, StaticVar(x, v) PROVE ReadOK'
  <2>1. UNCHANGED <<reader, ctx>>
    BY <1>6 DEF StaticVar
  <2>2. QED
    BY <1>2, <2>1, StatementsRead
<1>7. CASE Include
  BY <1>2, <1>7, IncludeReads
<1>8. CASE IncludeFails
  BY <1>2, <1>8, IncludeFailsReads
<1>9. CASE Eval
  BY <1>2, <1>9, EvalReads
<1>10. ASSUME NEW f \in Funcs, NEW D \in SUBSET Names, NEW args \in [D -> Vals], Call(f, args)
       PROVE  ReadOK'
  BY <1>2, <1>10, CallReads
<1>11. CASE End
  BY <1>2, <1>11, EndReads
<1>12. CASE UNCHANGED vars
  BY <1>2, <1>12, StatementsRead DEF vars, page
<1>13. QED
  BY <1>3, <1>4, <1>5, <1>6, <1>7, <1>8, <1>9, <1>10, <1>11, <1>12 DEF Next

(* ReadInv holds of every reachable state.                                 *)
THEOREM CallsInvariant == Spec => []ReadInv
BY ReadInit, ReadStep, PTL DEF Spec

(* On plain pages, however deep their calls and includes are, every text   *)
(* is read to its own end and as what it is, and what it has called will   *)
(* come back to it (FilePush, FilePop, RunFunc, Include, Eval).            *)
THEOREM CallsText == Spec => []TextFaithful
<1>1. ReadInv => TextFaithful
  <2> SUFFICES ASSUME Plain, ReadOK
               PROVE  /\ size = IF Top.kind = "call" THEN Top.fn ELSE Len(ctx)
                      /\ evalMode = (Top.kind = "eval")
                      /\ curFunc = Top.fn
                      /\ InnermostFile(fileSize)
    BY DEF ReadInv, TextFaithful
  <2>1. Len(ctx) \in Nat \ {0} /\ Top = ctx[Len(ctx)]
    BY TopOfCtx DEF ReadOK
  <2>2. size = IF Top.kind = "call" THEN Top.fn ELSE Len(ctx)
    BY <2>1 DEF ReadOK, ReaderOK, OwnSize
  <2>3. evalMode = (Top.kind = "eval")
    BY <2>1 DEF ReadOK, ReaderOK
  <2>4. curFunc = Top.fn
    BY <2>1 DEF ReadOK, ReaderOK
  <2>5. InnermostFile(fileSize)
    <3>1. DOMAIN ctx = 1..Len(ctx)
      BY LenProperties DEF ReadOK, CtxOK
    <3>2. /\ fileSize \in 1..Len(ctx)
          /\ \A i \in 1..Len(ctx) : (ctx[i].kind = "file") <=> (i <= fileSize)
      BY DEF ReadOK, ShapeOK
    <3>3. ctx[fileSize].kind = "file"
      BY <2>1, <3>2
    <3>4. ASSUME NEW j \in fileSize + 1 .. Len(ctx) PROVE ctx[j].kind # "file"
      <4>1. j \in 1..Len(ctx) /\ ~(j <= fileSize)
        BY <2>1, <3>2, <3>4
      <4>2. QED
        BY <3>2, <4>1
    <3>5. QED
      BY <3>1, <3>2, <3>3, <3>4 DEF InnermostFile
  <2>6. QED
    BY <2>2, <2>3, <2>4, <2>5
<1>2. QED
  BY <1>1, CallsInvariant, PTL

(* On plain pages the marks are those of the calls and evals that are      *)
(* still read, in their order (PushCondMatchMarks, FilePop).               *)
THEOREM CallsMarks == Spec => []MarksFaithful
<1>1. ReadInv => MarksFaithful
  <2> SUFFICES ASSUME Plain, ReadOK
               PROVE  /\ \A i, j \in DOMAIN marks : i < j => marks[i] < marks[j]
                      /\ {marks[i] : i \in DOMAIN marks} = {i \in DOMAIN ctx : ctx[i].kind # "file"}
    BY DEF ReadInv, MarksFaithful
  <2>1. /\ DOMAIN ctx = 1..Len(ctx) /\ DOMAIN marks = 1..Len(marks)
        /\ Len(ctx) \in Nat /\ Len(marks) \in Nat
    BY LenProperties DEF ReadOK, CtxOK, MarksOK
  <2>2. Len(marks) = Len(ctx) - fileSize /\ fileSize \in 1..Len(ctx)
    BY DEF ReadOK, MarksOK, ShapeOK
  <2>3. \A i \in 1..Len(marks) : marks[i] = fileSize + i
    BY DEF ReadOK, MarksOK
  <2>4. \A i \in 1..Len(ctx) : (ctx[i].kind # "file") <=> (fileSize < i)
    <3>1. \A i \in 1..Len(ctx) : (ctx[i].kind = "file") <=> (i <= fileSize)
      BY DEF ReadOK, ShapeOK
    <3>2. \A i \in 1..Len(ctx) : i \in Int /\ fileSize \in Int
      BY <2>1, <2>2
    <3>3. QED
      BY <3>1, <3>2
  <2>5. \A i, j \in DOMAIN marks : i < j => marks[i] < marks[j]
    BY <2>1, <2>2, <2>3
  <2>6. ASSUME NEW i \in DOMAIN marks PROVE marks[i] \in {k \in DOMAIN ctx : ctx[k].kind # "file"}
    <3>1. fileSize + i \in 1..Len(ctx) /\ fileSize < fileSize + i
      BY <2>1, <2>2, <2>6
    <3>2. QED
      BY <2>1, <2>3, <2>4, <2>6, <3>1
  <2>7. ASSUME NEW k \in DOMAIN ctx, ctx[k].kind # "file" PROVE \E i \in DOMAIN marks : marks[i] = k
    <3>1. k - fileSize \in 1..Len(marks) /\ fileSize + (k - fileSize) = k
      BY <2>1, <2>2, <2>4, <2>7
    <3>2. QED
      BY <2>1, <2>3, <3>1
  <2>8. QED
    BY <2>5, <2>6, <2>7
<1>2. QED
  BY <1>1, CallsInvariant, PTL

-----------------------------------------------------------------------------
(* FramesEnd for every page, whatever its habits, however deep calls,      *)
(* includes and evals are in each other.                                   *)

-----------------------------------------------------------------------------
(* Stacks of anything. *)

IsStack(s) == \E T : s \in Seq(T)

(* Pushing on a stack.                                                     *)
LEMMA StackPushed ==
  ASSUME NEW s, IsStack(s), NEW e
  PROVE  /\ IsStack(Append(s, e))
         /\ Len(s) \in Nat
         /\ Len(Append(s, e)) = Len(s) + 1
         /\ Append(s, e)[Len(s) + 1] = e
         /\ \A i \in 1..Len(s) : Append(s, e)[i] = s[i]
<1>1. PICK T : s \in Seq(T)
  BY DEF IsStack
<1>2. s \in Seq(T \union {e}) /\ e \in T \union {e}
  BY <1>1
<1>3. QED
  BY <1>2, Pushed, LenProperties DEF IsStack

(* Popping a stack that is not empty, and one that may be.                 *)
LEMMA StackPopped ==
  ASSUME NEW s, IsStack(s), s # <<>>
  PROVE  /\ IsStack(Front(s))
         /\ Pop(s) = Front(s)
         /\ Len(s) \in Nat \ {0}
         /\ Len(Front(s)) = Len(s) - 1
         /\ \A i \in 1..Len(s) - 1 : Front(s)[i] = s[i]
         /\ Last(s) = s[Len(s)]
<1>1. PICK T : s \in Seq(T)
  BY DEF IsStack
<1>2. QED
  BY <1>1, Popped DEF IsStack

LEMMA StackPop ==
  ASSUME NEW s, IsStack(s)
  PROVE  /\ IsStack(Pop(s)) /\ Len(s) \in Nat
         /\ Len(Pop(s)) = IF Len(s) = 0 THEN 0 ELSE Len(s) - 1
<1>1. PICK T : s \in Seq(T)
  BY DEF IsStack
<1>2. CASE s = <<>>
  <2>1. Pop(s) = s /\ Len(s) = 0
    BY <1>2 DEF Pop
  <2>2. QED
    BY <2>1
<1>3. CASE s # <<>>
  BY <1>3, StackPopped
<1>4. QED
  BY <1>2, <1>3

(* Replacing an entry.                                                     *)
LEMMA StackReplaced ==
  ASSUME NEW s, IsStack(s), NEW i \in 1..Len(s), NEW e
  PROVE  IsStack([s EXCEPT ![i] = e]) /\ Len([s EXCEPT ![i] = e]) = Len(s)
<1>1. PICK T : s \in Seq(T)
  BY DEF IsStack
<1>2. s \in Seq(T \union {e}) /\ e \in T \union {e}
  BY <1>1
<1>3. QED
  BY <1>2, ExceptSeq DEF IsStack

-----------------------------------------------------------------------------
(* The inductive invariant.  Whether FilePop takes a frame off depends on  *)
(* the function that is noted for the text that ends, which need not be    *)
(* that of a call.  So what bounds the frames is, for every depth k: the   *)
(* calls among the k outermost texts, and what the ends of the others will *)
(* take off.                                                               *)

Noted(i) == IF i = Len(ctx) THEN curFunc ELSE files[i].fn
Owed(k)  == {i \in 1..Len(ctx) : IF i <= k THEN ctx[i].kind = "call" ELSE Noted(i) # None}

StacksOK ==
  /\ IsStack(ctx) /\ IsStack(files) /\ IsStack(frames)
  /\ Len(ctx) \in Nat \ {0} /\ Len(files) = Len(ctx) - 1

FramesOwed == \A k \in 0..Len(ctx) : Len(frames) <= Cardinality(Owed(k))

(* From the beginning of an eval to the next end of a text nothing is      *)
(* noted but what calls have noted.                                        *)
EvalNotes == evalMode => Len(ctx) > 1 /\ (curFunc # None \/ files[Len(files)].fn = None)

FramesInv == StacksOK /\ FramesOwed /\ EvalNotes

NoneIsNoFunc == None \notin Funcs

(* What is owed can be counted.                                            *)
LEMMA OwedFinite ==
  ASSUME Len(ctx) \in Nat, NEW k
  PROVE  IsFiniteSet(Owed(k)) /\ Cardinality(Owed(k)) \in Nat
<1>1. IsFiniteSet(1..Len(ctx))
  BY FS_Interval
<1>2. Owed(k) \subseteq 1..Len(ctx)
  BY DEF Owed
<1>3. QED
  BY <1>1, <1>2, FS_Subset, FS_CardinalityType

LEMMA OwedPrimed ==
  ASSUME Len(ctx)' \in Nat, NEW k
  PROVE  IsFiniteSet(Owed(k)') /\ Cardinality(Owed(k)') \in Nat
<1>1. IsFiniteSet(1..Len(ctx'))
  BY FS_Interval
<1>2. Owed(k)' \subseteq 1..Len(ctx')
  BY DEF Owed
<1>3. QED
  BY <1>1, <1>2, FS_Subset, FS_CardinalityType

(* A bound that is carried over to a set with one element more or less.    *)
LEMMA OneMore ==
  ASSUME NEW A, NEW B, IsFiniteSet(A), IsFiniteSet(B), NEW x, x \in B, x \notin A, A \subseteq B
  PROVE  Cardinality(A) + 1 <= Cardinality(B)
<1>1. IsFiniteSet(A \union {x}) /\ Cardinality(A \union {x}) = Cardinality(A) + 1
  BY FS_AddElement
<1>2. A \union {x} \subseteq B
  OBVIOUS
<1>3. Cardinality(A \union {x}) <= Cardinality(B)
  BY <1>2, FS_Subset
<1>4. QED
  BY <1>1, <1>3

LEMMA AtMostOneLess ==
  ASSUME NEW A, NEW B, IsFiniteSet(A), IsFiniteSet(B), NEW x, A \subseteq B \union {x}
  PROVE  Cardinality(A) <= Cardinality(B) + 1
<1>0. Cardinality(B) \in Nat
  BY FS_CardinalityType
<1>1. IsFiniteSet(B \union {x}) /\ Cardinality(B \union {x}) <= Cardinality(B) + 1
  <2>1. /\ IsFiniteSet(B \union {x})
        /\ Cardinality(B \union {x}) = IF x \in B THEN Cardinality(B) ELSE Cardinality(B) + 1
    BY FS_AddElement
  <2>2. QED
    BY <1>0, <2>1
<1>2. Cardinality(A) <= Cardinality(B \union {x})
  BY <1>1, FS_Subset
<1>3. Cardinality(A) \in Nat /\ Cardinality(B) \in Nat /\ Cardinality(B \union {x}) \in Nat
  BY <1>1, FS_CardinalityType
<1>4. QED
  BY <1>1, <1>2, <1>3

(* Statements on variables keep the number of frames.                      *)
Kept == IsStack(frames') /\ Len(frames') = Len(frames)

LEMMA PutHereKeeps ==
  ASSUME IsStack(frames), NEW t, PutHere(t)
  PROVE  Kept
<1>1. CASE ~InTree
  BY <1>1 DEF PutHere, Kept
<1>2. CASE InTree
  <2>1. Len(frames) \in 1..Len(frames)
    BY <1>2, StackPopped DEF InTree, InCall
  <2>2. frames' = [frames EXCEPT ![Len(frames)] = t]
    BY <1>2 DEF PutHere
  <2>3. QED
    BY <2>1, <2>2, StackReplaced DEF Kept
<1>3. QED
  BY <1>1, <1>2

LEMMA AdoptKeeps ==
  ASSUME IsStack(frames), NEW x, NEW v, frames' = Adopt(x, v)
  PROVE  Kept
<1>1. CASE frames' = frames
  BY <1>1 DEF Kept
<1>2. CASE frames' # frames
  <2>1. Len(frames) \in 1..Len(frames)
    BY <1>2, StackPopped DEF Adopt, InCall
  <2> DEFINE t == Assign(Empty, x, v, "local")
  <2>2. frames' = [frames EXCEPT ![Len(frames)] = t]
    BY <1>2 DEF Adopt
  <2> HIDE DEF t
  <2>3. IsStack([frames EXCEPT ![Len(frames)] = t]) /\ Len([frames EXCEPT ![Len(frames)] = t]) = Len(frames)
    BY <2>1, StackReplaced
  <2>4. QED
    BY <2>2, <2>3 DEF Kept
<1>3. QED
  BY <1>1, <1>2

LEMMA SetVarKeeps ==
  ASSUME IsStack(frames), NEW x, NEW v, SetVar(x, v)
  PROVE  Kept
<1>1. CASE Scope(Here, x) = "global"
  BY <1>1 DEF SetVar, Kept
<1>2. CASE Scope(Here, x) = "static"
  BY <1>2, AdoptKeeps DEF SetVar
<1>3. CASE Scope(Here, x) # "global" /\ Scope(Here, x) # "static"
  BY <1>3, PutHereKeeps DEF SetVar
<1>4. QED
  BY <1>1, <1>2, <1>3

LEMMA UnSetKeeps ==
  ASSUME IsStack(frames), NEW x, UnSet(x)
  PROVE  Kept
<1>1. CASE Where(x) = "here"
  BY <1>1, PutHereKeeps DEF UnSet
<1>2. CASE Where(x) # "here"
  <2>1. Where(x) \in {"main", "static"}
    BY <1>2 DEF Where
  <2>2. frames' = frames
    BY <1>2, <2>1 DEF UnSet
  <2>3. QED
    BY <2>2 DEF Kept
<1>3. QED
  BY <1>1, <1>2

LEMMA GlobalKeeps ==
  ASSUME IsStack(frames), NEW x, Global(x)
  PROVE  Kept
<1>1. CASE InCall /\ GetVar(x) = Undef
  BY <1>1, PutHereKeeps DEF Global
<1>2. CASE ~(InCall /\ GetVar(x) = Undef)
  BY <1>2 DEF Global, trees, Kept
<1>3. QED
  BY <1>1, <1>2

LEMMA StaticVarKeeps ==
  ASSUME IsStack(frames), NEW x, NEW v, StaticVar(x, v)
  PROVE  Kept
<1>1. CASE InCall /\ x \notin DOMAIN Here /\ inMain
  <2>1. frames' = Adopt(x, v)
    BY <1>1 DEF StaticVar
  <2>2. QED
    BY <2>1, AdoptKeeps
<1>2. CASE ~(InCall /\ x \notin DOMAIN Here /\ inMain)
  <2>1. PutHere(Assign(Here, x, v, "static"))
    BY <1>2 DEF StaticVar
  <2>2. QED
    BY <2>1, PutHereKeeps
<1>3. QED
  BY <1>1, <1>2

(* They keep all the rest.                                                 *)
LEMMA SameFrames ==
  ASSUME FramesInv, ctx' = ctx, files' = files, curFunc' = curFunc, evalMode' = evalMode,
         IsStack(frames'), Len(frames') = Len(frames)
  PROVE  FramesInv'
<1>1. \A k : Owed(k)' = Owed(k)
  BY DEF Owed, Noted
<1>2. QED
  BY <1>1 DEF FramesInv, StacksOK, FramesOwed, EvalNotes

LEMMA StatementFrames ==
  ASSUME FramesInv, UNCHANGED <<reader, ctx>>, Kept
  PROVE  FramesInv'
BY SameFrames DEF reader, Kept

-----------------------------------------------------------------------------
(* Texts begin. *)

(* What is owed after a text has been pushed on those that were read.      *)
LEMMA TextPushed ==
  ASSUME FramesInv, NEW d, d = Len(ctx), NEW text, NEW saved,
         ctx' = Append(ctx, text), files' = Append(files, saved)
  PROVE  /\ IsStack(frames') => StacksOK'
         /\ d \in Nat \ {0} /\ Len(ctx') = d + 1 /\ Len(files') = d
         /\ ctx'[d + 1] = text /\ files'[d] = saved
         /\ \A i \in 1..d : ctx'[i] = ctx[i]
         /\ Noted(d) = curFunc /\ Noted(d + 1)' = curFunc' /\ Noted(d)' = saved.fn
         /\ \A i \in 1..d - 1 : Noted(i)' = Noted(i)
<1>1. /\ IsStack(ctx') /\ d \in Nat \ {0} /\ Len(ctx') = d + 1 /\ ctx'[d + 1] = text
      /\ \A i \in 1..d : ctx'[i] = ctx[i]
  BY StackPushed DEF FramesInv, StacksOK
<1>2. /\ IsStack(files') /\ Len(files') = d /\ files'[d] = saved
      /\ \A i \in 1..d - 1 : files'[i] = files[i]
  <2>1. Len(files) = d - 1 /\ IsStack(files)
    BY DEF FramesInv, StacksOK
  <2>2. QED
    BY <1>1, <2>1, StackPushed
<1>3. IsStack(frames') => StacksOK'
  BY <1>1, <1>2 DEF StacksOK
<1>4. Noted(d) = curFunc /\ Noted(d + 1)' = curFunc' /\ Noted(d)' = saved.fn
  BY <1>1, <1>2 DEF Noted
<1>5. \A i \in 1..d - 1 : Noted(i)' = Noted(i)
  BY <1>1, <1>2 DEF Noted
<1>6. QED
  BY <1>1, <1>2, <1>3, <1>4, <1>5

(* A text that is not a call keeps the frames, and the function noted for  *)
(* the text it is read in passes to it.                                    *)
LEMMA ReadFrames ==
  ASSUME FramesInv, NEW kind \in {"file", "eval"}, NEW sz, NEW noFd,
         ctx' = Append(ctx, [kind |-> kind, fn |-> None]),
         FilePush(None, sz, noFd), curFunc' = curFunc, frames' = frames
  PROVE  FramesInv'
<1> DEFINE text  == [kind |-> kind, fn |-> None]
           saved == [fn |-> None, size |-> sz, noFd |-> noFd]
<1>1. PICK d : d = Len(ctx)
  OBVIOUS
<1>2. ctx' = Append(ctx, text) /\ files' = Append(files, saved)
  BY DEF FilePush
<1>3. text.kind # "call" /\ saved.fn = None
  OBVIOUS
<1> HIDE DEF text, saved
<1>4. /\ StacksOK' /\ d \in Nat \ {0} /\ Len(ctx') = d + 1 /\ Len(files') = d
      /\ ctx'[d + 1].kind # "call" /\ files'[d].fn = None
      /\ \A i \in 1..d : ctx'[i] = ctx[i]
      /\ Noted(d) = curFunc /\ Noted(d + 1)' = curFunc /\ Noted(d)' = None
      /\ \A i \in 1..d - 1 : Noted(i)' = Noted(i)
  BY <1>1, <1>2, <1>3, TextPushed DEF FramesInv, StacksOK
<1>5. EvalNotes'
  BY <1>4 DEF EvalNotes
<1>6. FramesOwed'
  <2> SUFFICES ASSUME NEW k \in 0 .. d + 1
               PROVE  Len(frames) <= Cardinality(Owed(k)')
    BY <1>4 DEF FramesOwed
  <2>0. IsFiniteSet(Owed(k)') /\ Cardinality(Owed(k)') \in Nat /\ Len(frames) \in Nat
    BY <1>4, OwedPrimed, StackPop DEF FramesInv, StacksOK
  <2>1. CASE k >= d
    <3>1. Owed(d) \subseteq Owed(k)'
      BY <1>1, <1>4, <2>1 DEF Owed
    <3>2. Len(frames) <= Cardinality(Owed(d))
      BY <1>1, <1>4 DEF FramesInv, FramesOwed
    <3>3. QED
      BY <1>1, <1>4, <2>0, <3>1, <3>2, FS_Subset, OwedFinite
  <2>2. CASE k < d
    <3>1. IsFiniteSet(Owed(k)) /\ Cardinality(Owed(k)) \in Nat /\ Len(frames) <= Cardinality(Owed(k))
      BY <1>1, <1>4, <2>2, OwedFinite DEF FramesInv, FramesOwed
    <3>2. Owed(k) \ {d} \subseteq Owed(k)' /\ d + 1 \notin Owed(k) \ {d}
      BY <1>1, <1>4 DEF Owed
    <3>3. CASE curFunc = None
      <4>1. d \notin Owed(k)
        BY <1>1, <1>4, <2>2, <3>3 DEF Owed
      <4>2. Owed(k) \subseteq Owed(k)'
        BY <3>2, <4>1
      <4>3. QED
        BY <2>0, <3>1, <4>2, FS_Subset
    <3>4. CASE curFunc # None
      <4>1. d + 1 \in Owed(k)'
        <5>1. d + 1 \in 1 .. d + 1 /\ ~(d + 1 <= k)
          BY <1>4, <2>2
        <5>2. QED
          BY <1>4, <3>4, <5>1 DEF Owed
      <4>2. IsFiniteSet(Owed(k) \ {d}) /\ Cardinality(Owed(k) \ {d}) \in Nat
        BY <3>1, FS_Subset, FS_CardinalityType
      <4>3. Cardinality(Owed(k) \ {d}) + 1 <= Cardinality(Owed(k)')
        BY <2>0, <3>2, <4>1, <4>2, OneMore
      <4>4. Cardinality(Owed(k)) <= Cardinality(Owed(k) \ {d}) + 1
        BY <3>1, <4>2, AtMostOneLess
      <4>5. QED
        BY <2>0, <3>1, <4>2, <4>3, <4>4
    <3>5. QED
      BY <3>3, <3>4
  <2>3. QED
    BY <1>4, <2>1, <2>2
<1>7. QED
  BY <1>4, <1>5, <1>6 DEF FramesInv

(* A call pushes a frame, and owes it at every depth.                      *)
LEMMA CallFrames ==
  ASSUME FramesInv, NoneIsNoFunc, NEW f \in Funcs, NEW sz, NEW noFd, NEW frame,
         ctx' = Append(ctx, [kind |-> "call", fn |-> f]),
         FilePush(curFunc, sz, noFd), curFunc' = f, frames' = Append(frames, frame)
  PROVE  FramesInv'
<1> DEFINE text  == [kind |-> "call", fn |-> f]
           saved == [fn |-> curFunc, size |-> sz, noFd |-> noFd]
<1>1. PICK d : d = Len(ctx)
  OBVIOUS
<1>2. ctx' = Append(ctx, text) /\ files' = Append(files, saved)
  BY DEF FilePush
<1>3. text.kind = "call" /\ saved.fn = curFunc
  OBVIOUS
<1> HIDE DEF text, saved
<1>4. IsStack(frames') /\ Len(frames) \in Nat /\ Len(frames') = Len(frames) + 1
  BY StackPushed DEF FramesInv, StacksOK
<1>5. /\ StacksOK' /\ d \in Nat \ {0} /\ Len(ctx') = d + 1
      /\ ctx'[d + 1].kind = "call"
      /\ \A i \in 1..d : ctx'[i] = ctx[i]
      /\ Noted(d + 1)' = f /\ Noted(d)' = Noted(d)
      /\ \A i \in 1..d - 1 : Noted(i)' = Noted(i)
  BY <1>1, <1>2, <1>3, <1>4, TextPushed DEF FramesInv, StacksOK
<1>6. EvalNotes'
  BY <1>5 DEF EvalNotes, NoneIsNoFunc
<1>7. FramesOwed'
  <2> SUFFICES ASSUME NEW k \in 0 .. d + 1
               PROVE  Len(frames) + 1 <= Cardinality(Owed(k)')
    BY <1>4, <1>5 DEF FramesOwed
  <2>0. IsFiniteSet(Owed(k)') /\ Cardinality(Owed(k)') \in Nat
    BY <1>5, OwedPrimed
  <2>1. PICK j \in 0..d : (k <= d => j = k) /\ (k = d + 1 => j = d)
    <3>1. PICK m : m = IF k <= d THEN k ELSE d
      OBVIOUS
    <3>2. m \in 0..d /\ (k <= d => m = k) /\ (k = d + 1 => m = d)
      BY <1>5, <3>1
    <3>3. QED
      BY <3>2
  <2>2. IsFiniteSet(Owed(j)) /\ Cardinality(Owed(j)) \in Nat /\ Len(frames) <= Cardinality(Owed(j))
    BY <1>1, <1>5, OwedFinite DEF FramesInv, FramesOwed
  <2>3. \A i \in 1..d : Noted(i)' = Noted(i)
    BY <1>5
  <2>4. Owed(j) \subseteq Owed(k)'
    BY <1>1, <1>5, <2>1, <2>3 DEF Owed
  <2>5. d + 1 \notin Owed(j)
    BY <1>1, <1>5 DEF Owed
  <2>6. d + 1 \in Owed(k)'
    BY <1>5 DEF Owed, NoneIsNoFunc
  <2>7. Cardinality(Owed(j)) + 1 <= Cardinality(Owed(k)')
    BY <2>0, <2>2, <2>4, <2>5, <2>6, OneMore
  <2>8. QED
    BY <1>4, <2>0, <2>2, <2>7
<1>8. QED
  BY <1>5, <1>6, <1>7 DEF FramesInv

(* A text ends: if a function is noted for it, a frame goes.  At the end   *)
(* of an eval what is noted for it passes to the text that contains it.    *)
LEMMA EndFrames ==
  ASSUME FramesInv, End
  PROVE  FramesInv'
<1>1. PICK d : d = Len(ctx)
  OBVIOUS
<1>2. /\ ctx' = Front(ctx) /\ files # <<>> /\ files' = Front(files)
      /\ evalMode' = FALSE
      /\ curFunc' = IF evalMode THEN curFunc ELSE Last(files).fn
      /\ frames' = IF curFunc = None THEN frames ELSE Pop(frames)
  BY DEF End, Unwinds, PopStackFrame
<1>3. /\ IsStack(files') /\ Len(files) = d - 1 /\ Len(files) \in Nat \ {0}
      /\ Len(files') = d - 2
      /\ \A i \in 1..d - 2 : files'[i] = files[i]
      /\ Last(files) = files[d - 1]
  <2>1. Len(files) = d - 1 /\ IsStack(files)
    BY <1>1 DEF FramesInv, StacksOK
  <2>2. /\ IsStack(Front(files)) /\ Len(files) \in Nat \ {0} /\ Len(Front(files)) = Len(files) - 1
        /\ \A i \in 1..Len(files) - 1 : Front(files)[i] = files[i]
        /\ Last(files) = files[Len(files)]
    BY <1>2, <2>1, StackPopped
  <2>3. d \in Nat
    BY <1>1 DEF FramesInv, StacksOK
  <2>4. Len(files) - 1 = d - 2
    BY <2>1, <2>2, <2>3
  <2>5. QED
    BY <1>2, <2>1, <2>2, <2>4
<1>4. /\ IsStack(ctx') /\ d \in Nat /\ d > 1 /\ Len(ctx') = d - 1
      /\ \A i \in 1..d - 1 : ctx'[i] = ctx[i]
  <2>1. d \in Nat /\ d > 1
    BY <1>1, <1>3 DEF FramesInv, StacksOK
  <2>2. ctx # <<>>
    BY <1>1, <2>1, EmptySeq
  <2>3. QED
    BY <1>1, <1>2, <2>1, <2>2, StackPopped DEF FramesInv, StacksOK
<1>5. /\ IsStack(frames') /\ Len(frames) \in Nat
      /\ Len(frames') = IF curFunc = None \/ Len(frames) = 0 THEN Len(frames) ELSE Len(frames) - 1
  BY <1>2, StackPop DEF FramesInv, StacksOK
<1>6. StacksOK'
  BY <1>3, <1>4, <1>5 DEF StacksOK
<1>7. EvalNotes'
  BY <1>2 DEF EvalNotes
<1>8. /\ Noted(d) = curFunc /\ Noted(d - 1) = files[d - 1].fn /\ Noted(d - 1)' = curFunc'
      /\ \A i \in 1..d - 2 : Noted(i)' = Noted(i)
  BY <1>1, <1>3, <1>4 DEF Noted
<1>9. \A i \in 1..d - 1 : Noted(i) # None => Noted(i)' # None
  <2>1. Noted(d - 1) # None => curFunc' # None
    BY <1>1, <1>2, <1>3, <1>8 DEF FramesInv, EvalNotes
  <2>2. QED
    BY <1>4, <1>8, <2>1
<1>10. FramesOwed'
  <2> SUFFICES ASSUME NEW k \in 0 .. d - 1
               PROVE  Len(frames') <= Cardinality(Owed(k)')
    BY <1>4 DEF FramesOwed
  <2>0. IsFiniteSet(Owed(k)') /\ Cardinality(Owed(k)') \in Nat
    BY <1>4, OwedPrimed
  <2>1. IsFiniteSet(Owed(k)) /\ Cardinality(Owed(k)) \in Nat /\ Len(frames) <= Cardinality(Owed(k))
    BY <1>1, <1>4, OwedFinite DEF FramesInv, FramesOwed
  <2>2. Owed(k) \subseteq Owed(k)' \union {d}
    <3> SUFFICES ASSUME NEW i \in Owed(k), i # d
                 PROVE  i \in Owed(k)'
      OBVIOUS
    <3>1. i \in 1..d - 1
      BY <1>1, <1>4 DEF Owed
    <3>2. QED
      BY <1>1, <1>4, <1>9, <3>1 DEF Owed
  <2>3. CASE curFunc = None
    <3>1. d \notin Owed(k)
      BY <1>1, <1>4, <1>8, <2>3 DEF Owed
    <3>2. Cardinality(Owed(k)) <= Cardinality(Owed(k)')
      BY <2>0, <2>2, <3>1, FS_Subset
    <3>3. QED
      BY <1>5, <2>0, <2>1, <2>3, <3>2
  <2>4. CASE curFunc # None
    <3>1. Cardinality(Owed(k)) <= Cardinality(Owed(k)') + 1
      BY <2>0, <2>1, <2>2, AtMostOneLess
    <3>2. QED
      BY <1>5, <2>0, <2>1, <2>4, <3>1
  <2>5. QED
    BY <2>3, <2>4
<1>11. QED
  BY <1>6, <1>7, <1>10 DEF FramesInv

-----------------------------------------------------------------------------
(* The theorem. *)

LEMMA FramesInit ==
  ASSUME Init
  PROVE  FramesInv
<1>1. /\ ctx = <<[kind |-> "file", fn |-> None]>>
      /\ evalMode = FALSE /\ files = <<>> /\ frames = <<>>
  BY DEF Init
<1>2. Len(ctx) = 1 /\ Len(files) = 0 /\ Len(frames) = 0
  BY <1>1
<1>3. StacksOK
  <2>1. IsStack(ctx) /\ IsStack(files) /\ IsStack(frames)
    <3>1. ctx \in Seq({[kind |-> "file", fn |-> None]})
      BY <1>1
    <3>2. files \in Seq({}) /\ frames \in Seq({})
      BY <1>1
    <3>3. QED
      BY <3>1, <3>2 DEF IsStack
  <2>2. QED
    BY <1>2, <2>1 DEF StacksOK
<1>4. FramesOwed
  BY <1>2, OwedFinite DEF FramesOwed
<1>5. QED
  BY <1>1, <1>3, <1>4 DEF FramesInv, EvalNotes

LEMMA FramesStep ==
  ASSUME NoneIsNoFunc, FramesInv, [Next]_vars
  PROVE  FramesInv'
<1>0. IsStack(frames)
  BY DEF FramesInv, StacksOK
<1>1. CASE \E x \in Names, v \in Vals : Set(x, v)
  BY <1>0, <1>1, SetVarKeeps, StatementFrames DEF Set
<1>2. CASE \E x \in Names : UnSet(x)
  <2>1. PICK x \in Names : UnSet(x)
    BY <1>2
  <2>2. UNCHANGED <<reader, ctx>>
    BY <2>1 DEF UnSet
  <2>3. QED
    BY <1>0, <2>1, <2>2, UnSetKeeps, StatementFrames
<1>3. CASE \E x \in Names : Global(x)
  <2>1. PICK x \in Names : Global(x)
    BY <1>3
  <2>2. UNCHANGED <<reader, ctx>>
    BY <2>1 DEF Global
  <2>3. QED
    BY <1>0, <2>1, <2>2, GlobalKeeps, StatementFrames
<1>4. CASE \E x \in Names, v \in Vals : StaticVar(x, v)
  <2>1. PICK x \in Names, v \in Vals : StaticVar(x, v)
    BY <1>4
  <2>2. UNCHANGED <<reader, ctx>>
    BY <2>1 DEF StaticVar
  <2>3. QED
    BY <1>0, <2>1, <2>2, StaticVarKeeps, StatementFrames
<1>5. CASE Include
  <2>1. /\ ctx' = Append(ctx, [kind |-> "file", fn |-> None])
        /\ FilePush(None, fileSize, gfd) /\ curFunc' = curFunc /\ frames' = frames
    BY <1>5 DEF Include, Read, trees
  <2>2. QED
    BY <2>1, ReadFrames
<1>6. CASE IncludeFails
  <2>1. /\ ctx' = ctx /\ files' = files /\ frames' = frames
        /\ curFunc' = curFunc /\ evalMode' = evalMode
    BY <1>6 DEF IncludeFails, trees
  <2>2. IsStack(frames') /\ Len(frames') = Len(frames)
    BY <2>1 DEF FramesInv, StacksOK
  <2>3. QED
    BY <2>1, <2>2, SameFrames
<1>7. CASE Eval
  <2>1. /\ ctx' = Append(ctx, [kind |-> "eval", fn |-> None])
        /\ FilePush(None, fileSize, gfd) /\ curFunc' = curFunc /\ frames' = frames
    BY <1>7 DEF Eval, Read, trees
  <2>2. QED
    BY <2>1, ReadFrames
<1>8. CASE \E f \in Funcs, D \in SUBSET Names : \E args \in [D -> Vals] : Call(f, args)
  <2>1. PICK f \in Funcs, D \in SUBSET Names : \E args \in [D -> Vals] : Call(f, args)
    BY <1>8
  <2>2. PICK args \in [D -> Vals] : Call(f, args)
    BY <2>1
  <2>3. ctx' = Append(ctx, [kind |-> "call", fn |-> f]) /\ curFunc' = f
    BY <2>2 DEF Call, Read
  <2>4. PICK sz, noFd : FilePush(curFunc, sz, noFd)
    <3>1. CASE curFunc = None
      <4>1. FilePush(curFunc, fileSize, gfd)
        BY <2>2, <3>1 DEF Call
      <4>2. QED
        BY <4>1
    <3>2. CASE curFunc # None
      <4>1. FilePush(curFunc, size, TRUE)
        BY <2>2, <3>2 DEF Call
      <4>2. QED
        BY <4>1
    <3>3. QED
      BY <3>1, <3>2
  <2>5. PICK frame : frames' = Append(frames, frame)
    BY <2>2 DEF Call
  <2>6. QED
    BY <2>3, <2>4, <2>5, CallFrames
<1>9. CASE End
  BY <1>9, EndFrames
<1>10. CASE UNCHANGED vars
  <2>1. /\ ctx' = ctx /\ files' = files /\ frames' = frames
        /\ curFunc' = curFunc /\ evalMode' = evalMode
    BY <1>10 DEF vars, reader, trees, page
  <2>2. IsStack(frames') /\ Len(frames') = Len(frames)
    BY <2>1 DEF FramesInv, StacksOK
  <2>3. QED
    BY <2>1, <2>2, SameFrames
<1>11. QED
  BY <1>1, <1>2, <1>3, <1>4, <1>5, <1>6, <1>7, <1>8, <1>9, <1>10 DEF Next

(* At every depth the frames are at most the calls among the outer texts   *)
(* and what the ends of the inner ones will take off.                      *)
THEOREM CallsFramesInv == Spec => []FramesInv
<1>1. NoneIsNoFunc
  BY CallsAssumption DEF NoneIsNoFunc
<1>2. Init => FramesInv
  BY FramesInit
<1>3. FramesInv /\ [Next]_vars => FramesInv'
  BY <1>1, FramesStep
<1>4. QED
  BY <1>2, <1>3, PTL DEF Spec

(* A frame of variables never outlives its call, whatever a page does.     *)
THEOREM CallsFramesEnd == Spec => []FramesEnd
<1>1. FramesInv => FramesEnd
  <2> SUFFICES ASSUME FramesInv
               PROVE  FramesEnd
    OBVIOUS
  <2>1. DOMAIN ctx = 1..Len(ctx)
    <3>1. PICK T : ctx \in Seq(T)
      BY DEF FramesInv, StacksOK, IsStack
    <3>2. QED
      BY <3>1, LenProperties
  <2>2. Owed(Len(ctx)) = {i \in DOMAIN ctx : ctx[i].kind = "call"}
    BY <2>1 DEF Owed, FramesInv, StacksOK
  <2>3. Len(frames) <= Cardinality(Owed(Len(ctx)))
    BY DEF FramesInv, StacksOK, FramesOwed
  <2>4. QED
    BY <2>2, <2>3 DEF FramesEnd
<1>2. QED
  BY <1>1, CallsFramesInv, PTL
-----------------------------------------------------------------------------
(* Trees of variables. *)

Variable == [val : Vals \union {Undef}, scope : {"local", "global", "static"}]
Tree     == UNION {[D -> Variable] : D \in SUBSET Names}

LEMMA TreeParts ==
  ASSUME NEW t \in Tree
  PROVE  DOMAIN t \subseteq Names /\ \A x \in DOMAIN t : t[x] \in Variable
BY DEF Tree

LEMMA TreeMade ==
  ASSUME NEW D \in SUBSET Names, NEW t \in [D -> Variable]
  PROVE  t \in Tree /\ DOMAIN t = D
BY DEF Tree

LEMMA VariableParts ==
  ASSUME NEW e \in Variable
  PROVE  /\ e.val \in Vals \union {Undef} /\ e.scope \in {"local", "global", "static"}
         /\ e = Var(e.val, e.scope)
BY DEF Variable, Var

LEMMA VarParts ==
  ASSUME NEW v \in Vals \union {Undef}, NEW scope \in {"local", "global", "static"}
  PROVE  Var(v, scope) \in Variable /\ Var(v, scope).val = v /\ Var(v, scope).scope = scope
BY DEF Variable, Var

LEMMA EmptyTree == Empty \in Tree /\ DOMAIN Empty = {}
<1>1. Empty \in [{} -> Variable] /\ DOMAIN Empty = {}
  BY DEF Empty
<1>2. QED
  BY <1>1, TreeMade

(* A variable is put into a tree.                                          *)
Entry(t, x, scope) == IF x \in DOMAIN t THEN t[x].scope ELSE scope

LEMMA AssignDomain ==
  ASSUME NEW t, NEW x, NEW v, NEW scope
  PROVE  DOMAIN Assign(t, x, v, scope) = DOMAIN t \union {x}
<1>1. PICK e : e = Var(v, Entry(t, x, scope))
  OBVIOUS
<1>2. Assign(t, x, v, scope) = [n \in DOMAIN t \union {x} |-> IF n = x THEN e ELSE t[n]]
  BY <1>1 DEF Assign, Put, Entry
<1>3. QED
  BY <1>1, <1>2 DEF Var

LEMMA AssignValue ==
  ASSUME NEW t, NEW x, NEW v, NEW scope
  PROVE  Assign(t, x, v, scope)[x].val = v
<1>1. PICK e : e = Var(v, Entry(t, x, scope))
  OBVIOUS
<1>2. Assign(t, x, v, scope) = [n \in DOMAIN t \union {x} |-> IF n = x THEN e ELSE t[n]]
  BY <1>1 DEF Assign, Put, Entry
<1>3. QED
  BY <1>1, <1>2 DEF Var

LEMMA AssignScope ==
  ASSUME NEW t, NEW x, NEW v, NEW scope
  PROVE  Assign(t, x, v, scope)[x].scope = Entry(t, x, scope)
<1>1. PICK e : e = Var(v, Entry(t, x, scope))
  OBVIOUS
<1>2. Assign(t, x, v, scope) = [n \in DOMAIN t \union {x} |-> IF n = x THEN e ELSE t[n]]
  BY <1>1 DEF Assign, Put, Entry
<1>3. QED
  BY <1>1, <1>2 DEF Var

LEMMA AssignOthers ==
  ASSUME NEW t, NEW x, NEW v, NEW scope
  PROVE  \A y \in DOMAIN t : y # x => Assign(t, x, v, scope)[y] = t[y]
<1>1. PICK e : e = Var(v, Entry(t, x, scope))
  OBVIOUS
<1>2. Assign(t, x, v, scope) = [n \in DOMAIN t \union {x} |-> IF n = x THEN e ELSE t[n]]
  BY <1>1 DEF Assign, Put, Entry
<1>3. QED
  BY <1>1, <1>2 DEF Var

LEMMA Assigned ==
  ASSUME NEW t \in Tree, NEW x \in Names, NEW v \in Vals \union {Undef},
         NEW scope \in {"local", "global", "static"}
  PROVE  Assign(t, x, v, scope) \in Tree /\ Assign(t, x, v, scope) # Empty
<1>1. DOMAIN t \subseteq Names /\ \A y \in DOMAIN t : t[y] \in Variable
  BY TreeParts
<1>2. PICK s : s = Entry(t, x, scope)
  OBVIOUS
<1>3. s \in {"local", "global", "static"}
  BY <1>1, <1>2, VariableParts DEF Entry
<1>4. PICK e : e = Var(v, s)
  OBVIOUS
<1>5. e \in Variable
  BY <1>3, <1>4, VarParts
<1>6. PICK u : u = Assign(t, x, v, scope)
  OBVIOUS
<1>7. u = [n \in DOMAIN t \union {x} |-> IF n = x THEN e ELSE t[n]]
  BY <1>2, <1>4, <1>6 DEF Assign, Put, Entry
<1>8. u \in [DOMAIN t \union {x} -> Variable]
  BY <1>1, <1>5, <1>7
<1>9. u \in Tree /\ DOMAIN u = DOMAIN t \union {x}
  BY <1>1, <1>8, TreeMade
<1>10. u # Empty
  BY <1>9, EmptyTree
<1>11. QED
  BY <1>6, <1>9, <1>10

(* A variable is taken out of it, and its entry stays.                     *)
LEMMA Erased ==
  ASSUME NEW t \in Tree, NEW x \in DOMAIN t, NEW u, u = Erase(t, x)
  PROVE  /\ u \in Tree /\ DOMAIN u = DOMAIN t /\ u # Empty
         /\ u[x].val = Undef /\ u[x].scope = t[x].scope
         /\ \A y \in DOMAIN t : y # x => u[y] = t[y]
<1>1. DOMAIN t \subseteq Names /\ \A y \in DOMAIN t : t[y] \in Variable
  BY TreeParts
<1>2. PICK b, s : b = t[x].val /\ s = t[x].scope
  OBVIOUS
<1>3. s \in {"local", "global", "static"} /\ t[x] = [val |-> b, scope |-> s]
  BY <1>1, <1>2, VariableParts DEF Var
<1>4. PICK e : e = Var(Undef, s)
  OBVIOUS
<1>5. e \in Variable /\ e.val = Undef /\ e.scope = s
  BY <1>3, <1>4, VarParts
<1>6. u = [t EXCEPT ![x] = e]
  <2>1. PICK w : w = t[x]
    OBVIOUS
  <2>2. [w EXCEPT !.val = Undef] = e
    BY <1>3, <1>4, <2>1 DEF Var
  <2>3. u = [t EXCEPT ![x] = [t[x] EXCEPT !.val = Undef]]
    BY DEF Erase
  <2>4. QED
    BY <2>1, <2>2, <2>3
<1>7. t \in [DOMAIN t -> Variable]
  BY DEF Tree
<1>8. u \in [DOMAIN t -> Variable] /\ u[x] = e /\ \A y \in DOMAIN t : y # x => u[y] = t[y]
  BY <1>1, <1>5, <1>6, <1>7
<1>9. u \in Tree /\ DOMAIN u = DOMAIN t
  BY <1>1, <1>8, TreeMade
<1>10. u # Empty
  BY <1>9, EmptyTree
<1>11. QED
  BY <1>2, <1>5, <1>8, <1>9, <1>10
-----------------------------------------------------------------------------
(* The types.  That Restore and Append keep them needs the depth of the    *)
(* texts; that a call works in the tree of the page only if its own is     *)
(* NULL needs that a tree which was written is not NULL.                   *)

TreesOK ==
  /\ frames \in Seq(Tree) /\ main \in Tree /\ statics \in [Funcs -> Tree]
  /\ inMain \in BOOLEAN /\ crashed \in BOOLEAN
  /\ curFunc \in Funcs \union {None}
  /\ inMain => frames # <<>> /\ Last(frames) = Empty /\ main # Empty

Saves == [fn : Funcs \union {None}, size : Sizes, noFd : BOOLEAN]

ReaderTypes ==
  /\ ctx \in Seq(Text) /\ Len(ctx) \in 1..MaxDepth
  /\ size \in Sizes /\ fileSize \in Sizes
  /\ gfd \in BOOLEAN /\ evalMode \in BOOLEAN
  /\ files \in Seq(Saves) /\ Len(files) = Len(ctx) - 1
  /\ marks \in Seq(2..MaxDepth)

TypesInv == TreesOK /\ ReaderTypes

LEMMA HereTree ==
  ASSUME TreesOK
  PROVE  Here \in Tree /\ (InTree => Len(frames) \in 1..Len(frames) /\ Here = frames[Len(frames)])
<1>1. CASE InTree
  <2>1. frames # <<>> /\ frames \in Seq(Tree)
    BY <1>1 DEF InTree, InCall, TreesOK
  <2>2. QED
    BY <1>1, <2>1, Popped DEF Here
<1>2. CASE ~InTree
  BY <1>2 DEF Here, TreesOK
<1>3. QED
  BY <1>1, <1>2

(* A tree that is written is the one at hand, in a frame or of the page.   *)
LEMMA PutHereTypes ==
  ASSUME TreesOK, NEW t \in Tree, t # Empty, PutHere(t),
         UNCHANGED <<crashed, curFunc>>, statics' \in [Funcs -> Tree], inMain' = inMain \/ inMain' = FALSE
  PROVE  TreesOK'
<1>1. CASE InTree
  <2>1. frames' = [frames EXCEPT ![Len(frames)] = t] /\ main' = main /\ Len(frames) \in 1..Len(frames)
    BY <1>1, HereTree DEF PutHere
  <2>2. frames' \in Seq(Tree)
    BY <2>1, ExceptSeq DEF TreesOK
  <2>3. inMain' = FALSE
    BY <1>1 DEF InTree, TreesOK
  <2>4. QED
    BY <2>1, <2>2, <2>3 DEF TreesOK
<1>2. CASE ~InTree
  <2>1. frames' = frames /\ main' = t
    BY <1>2 DEF PutHere
  <2>2. inMain' => inMain
    OBVIOUS
  <2>3. inMain' => frames' # <<>> /\ Last(frames') = Empty /\ main' # Empty
    BY <2>1, <2>2 DEF TreesOK
  <2>4. inMain' \in BOOLEAN
    BY DEF TreesOK
  <2>5. QED
    BY <2>1, <2>3, <2>4 DEF TreesOK
<1>3. QED
  BY <1>1, <1>2

LEMMA PutStaticTypes ==
  ASSUME TreesOK, NEW x \in Names, NEW v \in Vals \union {Undef}, PutStatic(x, v)
  PROVE  statics' \in [Funcs -> Tree]
<1>1. CASE curFunc = None
  BY <1>1 DEF PutStatic, TreesOK
<1>2. CASE curFunc # None
  <2>1. curFunc \in Funcs /\ statics[curFunc] \in Tree
    BY <1>2 DEF TreesOK
  <2>2. PICK u : u = Assign(statics[curFunc], x, v, "local")
    OBVIOUS
  <2>3. u \in Tree
    BY <2>1, <2>2, Assigned
  <2>4. statics' = [statics EXCEPT ![curFunc] = u]
    BY <1>2, <2>2 DEF PutStatic
  <2>5. QED
    BY <2>1, <2>3, <2>4 DEF TreesOK
<1>3. QED
  BY <1>1, <1>2

LEMMA AdoptTypes ==
  ASSUME TreesOK, NEW x \in Names, NEW v \in Vals \union {Undef}
  PROVE  Adopt(x, v) \in Seq(Tree)
<1>1. PICK u : u = Assign(Empty, x, v, "local")
  OBVIOUS
<1>2. u \in Tree
  BY <1>1, EmptyTree, Assigned
<1>3. CASE curFunc = None /\ InCall /\ Last(frames) = Empty
  <2>1. Len(frames) \in 1..Len(frames) /\ frames \in Seq(Tree)
    BY <1>3, Popped DEF InCall, TreesOK
  <2>2. Adopt(x, v) = [frames EXCEPT ![Len(frames)] = u]
    BY <1>1, <1>3 DEF Adopt
  <2>3. QED
    BY <1>2, <2>1, <2>2, ExceptSeq
<1>4. CASE ~(curFunc = None /\ InCall /\ Last(frames) = Empty)
  BY <1>4 DEF Adopt, TreesOK
<1>5. QED
  BY <1>3, <1>4

LEMMA SetMainTypes ==
  ASSUME TreesOK, NEW x \in Names, NEW v \in Vals \union {Undef}, SetMain(x, v)
  PROVE  main' \in Tree /\ statics' \in [Funcs -> Tree] /\ crashed' \in BOOLEAN
<1>1. CASE Scope(main, x) = "global"
  BY <1>1 DEF SetMain, TreesOK
<1>2. CASE Scope(main, x) = "static"
  BY <1>2, PutStaticTypes DEF SetMain, TreesOK
<1>3. CASE Scope(main, x) # "global" /\ Scope(main, x) # "static"
  <2>1. /\ main' = IF main = Empty THEN main ELSE Assign(main, x, v, "local")
        /\ UNCHANGED <<statics, crashed>>
    BY <1>3 DEF SetMain
  <2>2. main \in Tree /\ Assign(main, x, v, "local") \in Tree
    <3>1. PICK u : u = Assign(main, x, v, "local")
      OBVIOUS
    <3>2. QED
      BY <3>1, Assigned DEF TreesOK
  <2>3. QED
    BY <2>1, <2>2 DEF TreesOK
<1>4. QED
  BY <1>1, <1>2, <1>3

LEMMA SetVarTypes ==
  ASSUME TreesOK, NEW x \in Names, NEW v \in Vals \union {Undef}, SetVar(x, v), UNCHANGED curFunc
  PROVE  TreesOK'
<1>1. CASE Scope(Here, x) = "global"
  <2>1. SetMain(x, v) /\ inMain' = FALSE /\ UNCHANGED frames
    BY <1>1 DEF SetVar, BackToFrame
  <2>2. QED
    BY <2>1, SetMainTypes DEF TreesOK
<1>2. CASE Scope(Here, x) = "static"
  <2>1. PutStatic(x, v) /\ frames' = Adopt(x, v) /\ inMain' = FALSE /\ UNCHANGED <<main, crashed>>
    BY <1>2 DEF SetVar, BackToFrame
  <2>2. QED
    BY <2>1, PutStaticTypes, AdoptTypes DEF TreesOK
<1>3. CASE Scope(Here, x) # "global" /\ Scope(Here, x) # "static"
  <2>1. PICK t : t = Assign(Here, x, v, "local")
    OBVIOUS
  <2>2. t \in Tree /\ t # Empty
    BY <2>1, HereTree, Assigned
  <2>3. PutHere(t) /\ UNCHANGED <<inMain, statics, crashed>>
    BY <1>3, <2>1 DEF SetVar
  <2>4. QED
    BY <2>2, <2>3, PutHereTypes DEF TreesOK
<1>4. QED
  BY <1>1, <1>2, <1>3

(* Where a variable is, it has an entry.                                   *)
LEMMA Found ==
  ASSUME TreesOK, NEW x \in Names, GetVar(x) # Undef
  PROVE  \/ Where(x) = "here" /\ x \in DOMAIN Here
         \/ InTree /\ Where(x) = "main" /\ x \in DOMAIN main
         \/ InTree /\ Where(x) = "static" /\ curFunc \in Funcs /\ x \in DOMAIN statics[curFunc]
<1>1. CASE Where(x) = "here"
  BY <1>1 DEF GetVar, Lookup
<1>0. Where(x) # "here" => InTree
  BY DEF Where
<1>2. CASE Where(x) = "main"
  <2>1. Lookup(main, x) # Undef
    BY <1>2 DEF GetVar
  <2>2. QED
    BY <1>0, <1>2, <2>1 DEF Lookup
<1>3. CASE Where(x) = "static"
  <2>1. Lookup(Static(curFunc), x) # Undef /\ InTree
    BY <1>0, <1>3 DEF GetVar
  <2>2. curFunc # None
    BY <2>1, EmptyTree DEF Static, Lookup
  <2>3. QED
    BY <1>3, <2>1, <2>2 DEF Static, Lookup, TreesOK
<1>4. Where(x) \in {"here", "main", "static"}
  BY DEF Where
<1>5. QED
  BY <1>1, <1>2, <1>3, <1>4

LEMMA UnSetTypes ==
  ASSUME TreesOK, NEW x \in Names, UnSet(x)
  PROVE  TreesOK'
<1>0. GetVar(x) # Undef /\ UNCHANGED <<inMain, crashed, curFunc>>
  BY DEF UnSet, reader
<1>1. CASE Where(x) = "here"
  <2>1. PICK t : t = Erase(Here, x)
    OBVIOUS
  <2>2. Here \in Tree /\ x \in DOMAIN Here
    BY <1>0, <1>1, Found, HereTree
  <2>3. t \in Tree /\ t # Empty
    BY <2>1, <2>2, Erased
  <2>4. PutHere(t) /\ UNCHANGED statics
    BY <1>1, <2>1 DEF UnSet
  <2>5. QED
    BY <1>0, <2>3, <2>4, PutHereTypes DEF TreesOK
<1>2. CASE Where(x) = "main"
  <2>1. x \in DOMAIN main /\ main \in Tree
    BY <1>0, <1>2, Found DEF TreesOK
  <2>2. main' = Erase(main, x) /\ UNCHANGED <<frames, statics>>
    BY <1>2 DEF UnSet
  <2>3. main' \in Tree /\ main' # Empty
    BY <2>1, <2>2, Erased
  <2>4. QED
    BY <1>0, <2>2, <2>3 DEF TreesOK
<1>3. CASE Where(x) = "static"
  <2>1. PICK t : t = Erase(statics[curFunc], x)
    OBVIOUS
  <2>2. curFunc \in Funcs /\ x \in DOMAIN statics[curFunc]
    BY <1>0, <1>3, Found
  <2>3. t \in Tree
    BY <2>1, <2>2, Erased DEF TreesOK
  <2>4. statics' = [statics EXCEPT ![curFunc] = t] /\ UNCHANGED <<frames, main>>
    BY <1>3, <2>1 DEF UnSet
  <2>5. QED
    BY <1>0, <2>2, <2>3, <2>4 DEF TreesOK
<1>4. QED
  BY <1>0, <1>1, <1>2, <1>3, Found

LEMMA GlobalTypes ==
  ASSUME TreesOK, NEW x \in Names, Global(x)
  PROVE  TreesOK'
<1>0. UNCHANGED curFunc
  BY DEF Global, reader
<1>1. CASE InCall /\ GetVar(x) = Undef
  <2>1. PICK t : t = Assign(Here, x, 0, "global")
    OBVIOUS
  <2>2. t \in Tree /\ t # Empty
    BY <2>1, HereTree, Assigned, CallsAssumption
  <2>3. PutHere(t) /\ UNCHANGED <<inMain, statics, crashed>>
    BY <1>1, <2>1 DEF Global
  <2>4. QED
    BY <1>0, <2>2, <2>3, PutHereTypes DEF TreesOK
<1>2. CASE ~(InCall /\ GetVar(x) = Undef)
  BY <1>0, <1>2 DEF Global, trees, TreesOK
<1>3. QED
  BY <1>1, <1>2

LEMMA StaticVarTypes ==
  ASSUME TreesOK, NEW x \in Names, NEW v \in Vals, StaticVar(x, v)
  PROVE  TreesOK'
<1>0. UNCHANGED <<curFunc, crashed>>
  BY DEF StaticVar, reader
<1>1. PICK t : t = Assign(Here, x, v, "static")
  OBVIOUS
<1>2. t \in Tree /\ t # Empty
  BY <1>1, HereTree, Assigned
<1>3. CASE InCall /\ x \notin DOMAIN Here
  <2>1. statics' \in [Funcs -> Tree]
    BY <1>3, PutStaticTypes DEF StaticVar, TreesOK
  <2>2. inMain' = FALSE
    BY <1>3 DEF StaticVar, BackToFrame
  <2>3. CASE inMain
    <3>1. main' = Assign(main, x, v, "static") /\ frames' = Adopt(x, v)
      BY <1>3, <2>3 DEF StaticVar
    <3>2. main' \in Tree
      BY <3>1, Assigned DEF TreesOK
    <3>3. QED
      BY <1>0, <2>1, <2>2, <3>1, <3>2, AdoptTypes DEF TreesOK
  <2>4. CASE ~inMain
    <3>1. PutHere(t)
      BY <1>1, <1>3, <2>4 DEF StaticVar
    <3>2. QED
      BY <1>0, <1>2, <2>1, <2>2, <3>1, PutHereTypes
  <2>5. QED
    BY <2>3, <2>4
<1>4. CASE ~(InCall /\ x \notin DOMAIN Here)
  <2>1. PutHere(t) /\ UNCHANGED <<statics, inMain>>
    BY <1>1, <1>4 DEF StaticVar
  <2>2. QED
    BY <1>0, <1>2, <2>1, PutHereTypes DEF TreesOK
<1>5. QED
  BY <1>3, <1>4
(* A text begins: its depth is a size, and may be marked.                  *)
LEMMA ReadTypes ==
  ASSUME ReaderTypes, NEW kind \in Kinds, NEW fn \in Funcs \union {None}, NEW sz \in Sizes, Read(kind, fn, sz),
         NEW g \in Funcs \union {None}, NEW old \in Sizes, NEW noFd \in BOOLEAN, FilePush(g, old, noFd),
         fileSize' \in Sizes, gfd' \in BOOLEAN, evalMode' \in BOOLEAN,
         marks' = marks \/ marks' = Append(marks, Depth)
  PROVE  ReaderTypes'
<1>1. PICK text : text = [kind |-> kind, fn |-> fn]
  OBVIOUS
<1>2. text \in Text
  BY <1>1 DEF Text
<1>3. ctx' = Append(ctx, text) /\ size' = sz /\ Len(ctx) < MaxDepth
  BY <1>1 DEF Read, MayRead
<1>4. ctx \in Seq(Text) /\ Len(ctx) \in 1..MaxDepth /\ MaxDepth \in Nat
  BY CallsAssumption DEF ReaderTypes
<1>5. ctx' \in Seq(Text) /\ Len(ctx') = Len(ctx) + 1 /\ Len(ctx') \in 1..MaxDepth
  BY <1>2, <1>3, <1>4, Pushed
<1>6. PICK saved : saved = [fn |-> g, size |-> old, noFd |-> noFd]
  OBVIOUS
<1>7. saved \in Saves
  BY <1>6 DEF Saves
<1>8. files' = Append(files, saved)
  BY <1>6 DEF FilePush
<1>9. files' \in Seq(Saves) /\ Len(files') = Len(ctx') - 1
  <2>1. files \in Seq(Saves) /\ Len(files) = Len(ctx) - 1
    BY DEF ReaderTypes
  <2>2. QED
    BY <1>4, <1>5, <1>7, <1>8, <2>1, Pushed
<1>10. marks' \in Seq(2..MaxDepth)
  <2>1. Depth \in 2..MaxDepth
    BY <1>3, <1>4 DEF Depth
  <2>2. marks \in Seq(2..MaxDepth)
    BY DEF ReaderTypes
  <2>3. Append(marks, Depth) \in Seq(2..MaxDepth)
    BY ONLY <2>1, <2>2, Pushed
  <2>4. QED
    BY <2>2, <2>3
<1>11. QED
  BY <1>3, <1>5, <1>9, <1>10 DEF ReaderTypes

LEMMA DepthIsSize ==
  ASSUME ReaderTypes, NEW kind, MayRead(kind)
  PROVE  Depth \in Sizes
BY CallsAssumption DEF ReaderTypes, MayRead, Depth, Sizes

LEMMA IncludeTypes ==
  ASSUME TypesInv, Include
  PROVE  TypesInv'
<1>1. /\ Read("file", None, Depth) /\ FilePush(None, fileSize, gfd)
      /\ fileSize' = Depth /\ gfd' = FALSE
      /\ UNCHANGED <<trees, evalMode, curFunc, marks>>
  BY DEF Include
<1>2. Depth \in Sizes
  BY <1>1, DepthIsSize DEF TypesInv, Read
<1>3. fileSize \in Sizes /\ gfd \in BOOLEAN /\ evalMode \in BOOLEAN
  BY DEF TypesInv, ReaderTypes
<1>4. ReaderTypes'
  BY <1>1, <1>2, <1>3, ReadTypes DEF TypesInv, Kinds
<1>5. TreesOK'
  BY <1>1 DEF TypesInv, TreesOK, trees
<1>6. QED
  BY <1>4, <1>5 DEF TypesInv

LEMMA EvalTypes ==
  ASSUME TypesInv, Eval
  PROVE  TypesInv'
<1>1. /\ Read("eval", None, Depth) /\ FilePush(None, fileSize, gfd)
      /\ evalMode' = TRUE /\ marks' = Append(marks, Depth)
      /\ UNCHANGED <<trees, fileSize, gfd, curFunc>>
  BY DEF Eval
<1>2. Depth \in Sizes
  BY <1>1, DepthIsSize DEF TypesInv, Read
<1>3. fileSize \in Sizes /\ gfd \in BOOLEAN
  BY DEF TypesInv, ReaderTypes
<1>4. ReaderTypes'
  BY <1>1, <1>2, <1>3, ReadTypes DEF TypesInv, Kinds
<1>5. TreesOK'
  BY <1>1 DEF TypesInv, TreesOK, trees
<1>6. QED
  BY <1>4, <1>5 DEF TypesInv

(* The tree of a call has the arguments, all of them local.                *)
LEMMA ArgumentsTree ==
  ASSUME NEW D \in SUBSET Names, NEW args \in [D -> Vals], NEW t, t = [n \in DOMAIN args |-> Var(args[n], "local")]
  PROVE  /\ t \in Tree /\ DOMAIN t = D
         /\ \A x \in D : t[x].val = args[x] /\ t[x].scope = "local"
<1>1. \A n \in D : Var(args[n], "local") \in Variable
  BY VarParts
<1>2. t \in [D -> Variable]
  BY <1>1
<1>3. \A n \in D : t[n] = Var(args[n], "local")
  OBVIOUS
<1>4. QED
  BY <1>2, <1>3, TreeMade, VarParts

LEMMA CallTypes ==
  ASSUME TypesInv, NEW f \in Funcs, NEW D \in SUBSET Names, NEW args \in [D -> Vals], Call(f, args)
  PROVE  TypesInv'
<1>1. PICK t : t = [n \in DOMAIN args |-> Var(args[n], "local")]
  OBVIOUS
<1>2. /\ Read("call", f, f)
      /\ IF curFunc = None THEN FilePush(None, fileSize, gfd) ELSE FilePush(curFunc, size, TRUE)
      /\ curFunc' = f /\ marks' = Append(marks, Depth)
      /\ frames' = Append(frames, t) /\ inMain' = FALSE
      /\ UNCHANGED <<fileSize, gfd, evalMode, main, statics, crashed>>
  BY <1>1 DEF Call
<1>3. t \in Tree
  BY <1>1, ArgumentsTree
<1>4. frames' \in Seq(Tree)
  BY <1>2, <1>3, Pushed DEF TypesInv, TreesOK
<1>5. TreesOK'
  BY <1>2, <1>4 DEF TypesInv, TreesOK
<1>6. /\ fileSize \in Sizes /\ size \in Sizes /\ f \in Sizes
      /\ gfd \in BOOLEAN /\ evalMode \in BOOLEAN /\ curFunc \in Funcs \union {None}
  BY DEF TypesInv, ReaderTypes, TreesOK, Sizes
<1>7. ReaderTypes'
  <2>1. CASE curFunc = None
    BY <1>2, <1>6, <2>1, ReadTypes DEF TypesInv, Kinds
  <2>2. CASE curFunc # None
    BY <1>2, <1>6, <2>2, ReadTypes DEF TypesInv, Kinds
  <2>3. QED
    BY <2>1, <2>2
<1>8. QED
  BY <1>5, <1>7 DEF TypesInv

LEMMA IncludeFailsTypes ==
  ASSUME TypesInv, IncludeFails
  PROVE  TypesInv'
<1>1. fileSize' = fileSize \/ fileSize' = 0
  BY DEF IncludeFails
<1>2. 0 \in Sizes
  BY CallsAssumption DEF Sizes
<1>3. QED
  BY <1>1, <1>2 DEF IncludeFails, TypesInv, TreesOK, ReaderTypes, trees

(* A text ends.  A frame that is gone may leave one without a tree on top. *)
LEMMA PopStackFrameTypes ==
  ASSUME TreesOK, PopStackFrame, UNCHANGED <<main, statics, crashed>>, curFunc' \in Funcs \union {None}
  PROVE  TreesOK'
<1>1. frames \in Seq(Tree)
  BY DEF TreesOK
<1>2. CASE frames = <<>>
  <2>1. Pop(frames) = frames /\ Len(frames) = 0
    BY <1>2 DEF Pop
  <2>2. frames' = frames /\ ~inMain' /\ inMain' \in BOOLEAN
    <3>1. frames' = Pop(frames)
      BY DEF PopStackFrame
    <3>2. inMain' = (Len(frames) > 1 /\ Last(Front(frames)) = Empty /\ main # Empty)
      BY DEF PopStackFrame
    <3>3. ~(Len(frames) > 1)
      BY <2>1
    <3>4. QED
      BY <2>1, <3>1, <3>2, <3>3
  <2>3. QED
    BY <2>2 DEF TreesOK
<1>3. CASE frames # <<>>
  <2>1. /\ Front(frames) \in Seq(Tree) /\ Pop(frames) = Front(frames)
        /\ Len(frames) \in Nat \ {0} /\ Len(Front(frames)) = Len(frames) - 1
    BY <1>1, <1>3, Popped
  <2>2. frames' = Front(frames)
    BY <2>1 DEF PopStackFrame
  <2>3. inMain' = (Len(frames) > 1 /\ Last(Front(frames)) = Empty /\ main # Empty)
    BY DEF PopStackFrame
  <2>4. inMain' => frames' # <<>> /\ Last(frames') = Empty /\ main' # Empty
    <3>1. Len(frames) > 1 => Front(frames) # <<>>
      BY <2>1
    <3>2. QED
      BY <2>2, <2>3, <3>1
  <2>5. inMain' \in BOOLEAN
    BY <2>3
  <2>6. QED
    BY <2>1, <2>2, <2>4, <2>5 DEF TreesOK
<1>4. QED
  BY <1>2, <1>3

LEMMA EndTypes ==
  ASSUME TypesInv, End
  PROVE  TypesInv'
<1>1. PICK top : top = Last(files)
  OBVIOUS
<1>2. files \in Seq(Saves) /\ Len(files) = Len(ctx) - 1 /\ files # <<>>
  BY DEF TypesInv, ReaderTypes, End
<1>3. /\ top \in Saves /\ Front(files) \in Seq(Saves)
      /\ Len(files) \in Nat \ {0} /\ Len(Front(files)) = Len(files) - 1
  BY <1>1, <1>2, Popped
<1>4. top.fn \in Funcs \union {None} /\ top.size \in Sizes /\ top.noFd \in BOOLEAN
  BY <1>3 DEF Saves
<1>5. PICK popped : popped = IF Unwinds THEN Pop(marks) ELSE marks
  OBVIOUS
<1>6. /\ ctx' = Front(ctx) /\ files' = Front(files) /\ gfd' = top.noFd /\ evalMode' = FALSE
      /\ IF Unwinds THEN PopStackFrame ELSE UNCHANGED <<frames, inMain>>
      /\ IF evalMode
           THEN size' = top.size /\ marks' = Pop(popped) /\ UNCHANGED <<curFunc, fileSize>>
           ELSE /\ size' = IF top.fn = None THEN top.size ELSE top.fn
                /\ fileSize' = IF top.noFd THEN fileSize ELSE top.size
                /\ curFunc' = top.fn /\ marks' = popped
      /\ UNCHANGED <<main, statics, crashed>>
  BY <1>1, <1>5 DEF End
<1>7. \A s \in Seq(2..MaxDepth) : Pop(s) \in Seq(2..MaxDepth)
  <2> TAKE s \in Seq(2..MaxDepth)
  <2>1. CASE s = <<>>
    BY <2>1 DEF Pop
  <2>2. CASE s # <<>>
    BY <2>2, Popped
  <2>3. QED
    BY <2>1, <2>2
<1>8. marks' \in Seq(2..MaxDepth)
  <2>1. popped \in Seq(2..MaxDepth)
    BY <1>5, <1>7 DEF TypesInv, ReaderTypes
  <2>2. QED
    BY <1>6, <1>7, <2>1
<1>9. size' \in Sizes /\ fileSize' \in Sizes /\ curFunc' \in Funcs \union {None}
  <2>1. top.fn # None => top.fn \in Sizes
    BY <1>4 DEF Sizes
  <2>2. fileSize \in Sizes /\ curFunc \in Funcs \union {None}
    BY DEF TypesInv, ReaderTypes, TreesOK
  <2>3. QED
    BY <1>4, <1>6, <2>1, <2>2
<1>10. ctx' \in Seq(Text) /\ Len(ctx') \in 1..MaxDepth /\ Len(files') = Len(ctx') - 1
  <2>1. ctx \in Seq(Text) /\ Len(ctx) \in 1..MaxDepth /\ MaxDepth \in Nat
    BY CallsAssumption DEF TypesInv, ReaderTypes
  <2>2. ctx # <<>>
    BY <2>1
  <2>3. Front(ctx) \in Seq(Text) /\ Len(Front(ctx)) = Len(ctx) - 1
    BY <2>1, <2>2, Popped
  <2>4. QED
    BY <1>2, <1>3, <1>6, <2>1, <2>3
<1>11. ReaderTypes'
  BY <1>3, <1>4, <1>6, <1>8, <1>9, <1>10 DEF ReaderTypes
<1>12. TreesOK'
  <2>1. CASE Unwinds
    BY <1>6, <1>9, <2>1, PopStackFrameTypes DEF TypesInv
  <2>2. CASE ~Unwinds
    BY <1>6, <1>9, <2>2 DEF TypesInv, TreesOK
  <2>3. QED
    BY <2>1, <2>2
<1>13. QED
  BY <1>11, <1>12 DEF TypesInv

LEMMA TypesInit ==
  ASSUME Init
  PROVE  TypesInv
<1>1. PICK file : file = [kind |-> "file", fn |-> None]
  OBVIOUS
<1>2. file \in Text
  BY <1>1 DEF Text, Kinds
<1>3. ctx = <<file>>
  BY <1>1 DEF Init
<1>4. ctx \in Seq(Text) /\ Len(ctx) = 1 /\ 1 \in 1..MaxDepth /\ 1 \in 0..MaxDepth
  BY <1>2, <1>3, CallsAssumption
<1>5. /\ size = 1 /\ fileSize = 1 /\ gfd = FALSE /\ evalMode = FALSE
      /\ files = <<>> /\ marks = <<>> /\ frames = <<>> /\ main = Empty
      /\ inMain = FALSE /\ crashed = FALSE /\ curFunc = None
  BY DEF Init
<1>6. ReaderTypes
  <2>1. size \in Sizes /\ fileSize \in Sizes
    BY <1>4, <1>5 DEF Sizes
  <2>2. files \in Seq(Saves) /\ Len(files) = 0 /\ marks \in Seq(2..MaxDepth)
    BY <1>5
  <2>3. gfd \in BOOLEAN /\ evalMode \in BOOLEAN
    BY <1>5
  <2>4. Len(ctx) \in 1..MaxDepth /\ Len(files) = Len(ctx) - 1
    BY <1>4, <2>2
  <2>5. QED
    BY <1>4, <2>1, <2>2, <2>3, <2>4 DEF ReaderTypes
<1>7. statics \in [Funcs -> Tree]
  <2>1. statics = [f \in Funcs |-> Empty]
    BY DEF Init
  <2>2. QED
    BY <2>1, EmptyTree
<1>8. TreesOK
  <2>1. frames \in Seq(Tree)
    BY <1>5
  <2>2. main \in Tree
    BY <1>5, EmptyTree
  <2>3. ~inMain /\ inMain \in BOOLEAN /\ crashed \in BOOLEAN
    BY <1>5
  <2>4. curFunc \in Funcs \union {None}
    BY <1>5
  <2>5. QED
    BY <1>7, <2>1, <2>2, <2>3, <2>4 DEF TreesOK
<1>9. QED
  BY <1>6, <1>8 DEF TypesInv

LEMMA StatementTypes ==
  ASSUME TypesInv, UNCHANGED <<reader, ctx>>, TreesOK'
  PROVE  TypesInv'
BY DEF TypesInv, ReaderTypes, reader

LEMMA TypesStep ==
  ASSUME TypesInv, [Next]_vars
  PROVE  TypesInv'
<1>0. TreesOK
  BY DEF TypesInv
<1>1. ASSUME NEW x \in Names, NEW v \in Vals, Set(x, v) PROVE TypesInv'
  <2>1. SetVar(x, v) /\ UNCHANGED <<reader, ctx>> /\ UNCHANGED curFunc
    BY <1>1 DEF Set, reader
  <2>2. QED
    BY <1>0, <2>1, SetVarTypes, StatementTypes
<1>2. ASSUME NEW x \in Names, UnSet(x) PROVE TypesInv'
  <2>1. UNCHANGED <<reader, ctx>>
    BY <1>2 DEF UnSet
  <2>2. QED
    BY <1>0, <1>2, <2>1, UnSetTypes, StatementTypes
<1>3. ASSUME NEW x \in Names, Global(x) PROVE TypesInv'
  <2>1. UNCHANGED <<reader, ctx>>
    BY <1>3 DEF Global
  <2>2. QED
    BY <1>0, <1>3, <2>1, GlobalTypes, StatementTypes
<1>4. ASSUME NEW x \in Names, NEW v \in Vals, StaticVar(x, v) PROVE TypesInv'
  <2>1. UNCHANGED <<reader, ctx>>
    BY <1>4 DEF StaticVar
  <2>2. QED
    BY <1>0, <1>4, <2>1, StaticVarTypes, StatementTypes
<1>5. CASE Include
  BY <1>5, IncludeTypes
<1>6. CASE IncludeFails
  BY <1>6, IncludeFailsTypes
<1>7. CASE Eval
  BY <1>7, EvalTypes
<1>8. ASSUME NEW f \in Funcs, NEW D \in SUBSET Names, NEW args \in [D -> Vals], Call(f, args)
      PROVE  TypesInv'
  BY <1>8, CallTypes
<1>9. CASE End
  BY <1>9, EndTypes
<1>10. CASE UNCHANGED vars
  BY <1>10 DEF vars, page, reader, trees, TypesInv, TreesOK, ReaderTypes
<1>11. QED
  BY <1>1, <1>2, <1>3, <1>4, <1>5, <1>6, <1>7, <1>8, <1>9, <1>10 DEF Next

(* TypesInv holds of every reachable state.                                *)
THEOREM CallsTypesInv == Spec => []TypesInv
BY TypesInit, TypesStep, PTL DEF Spec

(* Whatever a page does, texts, trees and stacks keep their types, and a   *)
(* call works in the tree of the page only if its own is NULL (SetVar,     *)
(* PopStackFrame, FilePop).                                                *)
THEOREM CallsTypes == Spec => []TypeOK
<1>1. TypesInv => TypeOK
  <2> SUFFICES ASSUME TypesInv
               PROVE  TypeOK
    OBVIOUS
  <2>1. \A t \in Tree : IsTree(t)
    <3> TAKE t \in Tree
    <3>1. DOMAIN t \subseteq Names /\ \A x \in DOMAIN t : t[x] \in Variable
      BY TreeParts
    <3>2. QED
      BY <3>1, VariableParts DEF IsTree, IsVar
  <2>2. /\ size \in Sizes /\ fileSize \in Sizes
        /\ {gfd, evalMode, inMain, crashed} \subseteq BOOLEAN
        /\ curFunc \in Funcs \union {None}
        /\ Len(files) = Len(ctx) - 1
        /\ inMain => InCall /\ Last(frames) = Empty /\ main # Empty
    BY DEF TypesInv, TreesOK, ReaderTypes, InCall
  <2>3. \A i \in DOMAIN files : files[i].fn \in Funcs \union {None} /\ files[i].size \in Sizes
    <3> TAKE i \in DOMAIN files
    <3>1. files \in Seq(Saves)
      BY DEF TypesInv, ReaderTypes
    <3>2. files[i] \in Saves
      BY <3>1, LenProperties, ElementOfSeq
    <3>3. QED
      BY <3>2 DEF Saves
  <2>4. \A i \in DOMAIN marks : marks[i] \in 2..MaxDepth
    BY LenProperties, ElementOfSeq DEF TypesInv, ReaderTypes
  <2>5. \A i \in DOMAIN frames : IsTree(frames[i])
    <3> TAKE i \in DOMAIN frames
    <3>1. frames \in Seq(Tree)
      BY DEF TypesInv, TreesOK
    <3>2. frames[i] \in Tree
      BY <3>1, LenProperties, ElementOfSeq
    <3>3. QED
      BY <2>1, <3>2
  <2>6. IsTree(main) /\ \A f \in Funcs : IsTree(statics[f])
    BY <2>1 DEF TypesInv, TreesOK
  <2>7. QED
    BY <2>2, <2>3, <2>4, <2>5, <2>6 DEF TypeOK
<1>2. QED
  BY <1>1, CallsTypesInv, PTL
-----------------------------------------------------------------------------
(* The refinement of Scopes, on plain pages.  Who calls has a tree, so     *)
(* that no call ever works in that of the page, and only the trees of      *)
(* calls have entries that lead elsewhere.                                 *)

AllLocal(t) == \A x \in DOMAIN t : t[x].scope = "local"

FramesOK ==
  /\ ~inMain
  /\ \A i \in 1..Len(frames) - 1 : frames[i] # Empty
  /\ frames # <<>> => main # Empty
  /\ Len(frames) = IF Top.kind = "call" THEN Len(ctx) - fileSize ELSE 0

PlainTrees ==
  /\ FramesOK
  /\ AllLocal(main) /\ \A f \in Funcs : AllLocal(statics[f])

PlainOK  == TypesInv /\ ReadOK /\ PlainTrees
PlainInv == TypesInv /\ ReadInv /\ (Plain => PlainTrees)

(* What is put into a tree of local entries is local.                      *)
LEMMA AssignLocal ==
  ASSUME NEW t \in Tree, AllLocal(t), NEW x \in Names, NEW v \in Vals \union {Undef}
  PROVE  AllLocal(Assign(t, x, v, "local"))
<1>1. PICK u : u = Assign(t, x, v, "local")
  OBVIOUS
<1>2. /\ DOMAIN u = DOMAIN t \union {x} /\ u[x].val = v /\ u[x].scope = Entry(t, x, "local")
      /\ \A y \in DOMAIN t : y # x => u[y] = t[y]
  <2>1. DOMAIN u = DOMAIN t \union {x}
    BY <1>1, AssignDomain
  <2>2. u[x].val = v
    BY <1>1, AssignValue
  <2>3. u[x].scope = Entry(t, x, "local")
    BY <1>1, AssignScope
  <2>4. \A y \in DOMAIN t : y # x => u[y] = t[y]
    BY <1>1, AssignOthers
  <2>5. QED
    BY <2>1, <2>2, <2>3, <2>4
<1>3. u[x].scope = "local"
  BY <1>2 DEF Entry, AllLocal
<1>4. AllLocal(u)
  BY <1>2, <1>3 DEF AllLocal
<1>5. QED
  BY <1>1, <1>4

LEMMA EraseLocal ==
  ASSUME NEW t \in Tree, AllLocal(t), NEW x \in DOMAIN t
  PROVE  AllLocal(Erase(t, x))
<1>1. PICK u : u = Erase(t, x)
  OBVIOUS
<1>2. /\ DOMAIN u = DOMAIN t /\ u[x].scope = t[x].scope
      /\ \A y \in DOMAIN t : y # x => u[y] = t[y]
  BY <1>1, Erased
<1>3. AllLocal(u)
  BY <1>2 DEF AllLocal
<1>4. QED
  BY <1>1, <1>3

(* In a call the function is that of the call, and its tree is at hand;    *)
(* outside there are no frames.                                            *)
LEMMA InACall ==
  ASSUME PlainOK
  PROVE  /\ InTree <=> InCall
         /\ Len(frames) \in Nat /\ (InCall <=> Len(frames) > 0)
         /\ InCall => /\ curFunc \in Funcs /\ curFunc = ctx[Len(ctx)].fn
                      /\ Len(ctx) \in Nat /\ Len(frames) < Len(ctx)
                      /\ Here = frames[Len(frames)] /\ main # Empty
         /\ ~InCall => /\ curFunc = None /\ Here = main /\ frames = <<>>
<1>1. frames \in Seq(Tree) /\ curFunc \in Funcs \union {None} /\ TreesOK
  BY DEF PlainOK, TypesInv, TreesOK
<1>2. InTree <=> InCall
  BY DEF PlainOK, PlainTrees, FramesOK, InTree
<1>3. Len(frames) \in Nat /\ (InCall <=> Len(frames) > 0)
  BY <1>1, EmptySeq, LenProperties DEF InCall
<1>4. /\ Len(ctx) \in Nat \ {0} /\ Top = ctx[Len(ctx)] /\ Top \in Text
      /\ fileSize \in 1..Len(ctx) /\ curFunc = Top.fn
      /\ (Top.kind = "call") <=> (Top.fn # None)
      /\ (Top.kind = "file") <=> (Len(ctx) <= fileSize)
  BY TopOfCtx DEF PlainOK, ReadOK, CtxOK, ReaderOK, ShapeOK
<1>5. Len(frames) = IF Top.kind = "call" THEN Len(ctx) - fileSize ELSE 0
  BY DEF PlainOK, PlainTrees, FramesOK
<1>6. InCall <=> Top.kind = "call"
  BY <1>3, <1>4, <1>5
<1>7. ASSUME InCall
      PROVE  /\ curFunc \in Funcs /\ Len(frames) < Len(ctx)
             /\ Here = frames[Len(frames)] /\ main # Empty
  <2>1. curFunc \in Funcs /\ Len(frames) < Len(ctx)
    BY <1>1, <1>4, <1>5, <1>6, <1>7
  <2>2. Here = frames[Len(frames)]
    BY <1>1, <1>2, <1>7, HereTree
  <2>3. main # Empty
    BY <1>7 DEF InCall, PlainOK, PlainTrees, FramesOK
  <2>4. QED
    BY <2>1, <2>2, <2>3
<1>8. ASSUME ~InCall PROVE curFunc = None /\ Here = main /\ frames = <<>>
  BY <1>2, <1>4, <1>6, <1>8 DEF Here, InCall
<1>9. QED
  BY <1>2, <1>3, <1>4, <1>7, <1>8

-----------------------------------------------------------------------------
(* How trees are seen. *)

LEMMA SeenAssigned ==
  ASSUME NEW t \in Tree, NEW x \in Names, NEW v \in Vals \union {Undef},
         NEW scope \in {"local", "global", "static"}
  PROVE  Seen(Assign(t, x, v, scope)) = [n \in Names |-> IF n = x THEN v ELSE Seen(t)[n]]
<1>u. PICK u : u = Assign(t, x, v, scope)
  OBVIOUS
<1>e. /\ DOMAIN u = DOMAIN t \union {x} /\ u[x].val = v /\ u[x].scope = Entry(t, x, scope)
      /\ \A y \in DOMAIN t : y # x => u[y] = t[y]
  <2>1. DOMAIN u = DOMAIN t \union {x}
    BY <1>u, AssignDomain
  <2>2. u[x].val = v
    BY <1>u, AssignValue
  <2>3. u[x].scope = Entry(t, x, scope)
    BY <1>u, AssignScope
  <2>4. \A y \in DOMAIN t : y # x => u[y] = t[y]
    BY <1>u, AssignOthers
  <2>5. QED
    BY <2>1, <2>2, <2>3, <2>4
<1>1. /\ DOMAIN u = DOMAIN t \union {x} /\ u[x].val = v
      /\ \A y \in DOMAIN t : y # x => u[y] = t[y]
  BY <1>e
<1>2. \A n \in Names : Lookup(u, n) = IF n = x THEN v ELSE Lookup(t, n)
  BY <1>1 DEF Lookup
<1>3. QED
  BY <1>u, <1>2 DEF Seen

LEMMA SeenErased ==
  ASSUME NEW t \in Tree, NEW x \in DOMAIN t, NEW u, u = Erase(t, x)
  PROVE  Seen(u) = [n \in Names |-> IF n = x THEN Undef ELSE Seen(t)[n]]
<1>1. /\ DOMAIN u = DOMAIN t /\ u[x].val = Undef
      /\ \A y \in DOMAIN t : y # x => u[y] = t[y]
  BY Erased
<1>2. \A n \in Names : Lookup(u, n) = IF n = x THEN Undef ELSE Lookup(t, n)
  BY <1>1 DEF Lookup
<1>3. QED
  BY <1>2 DEF Seen

(* A local variable of a call.                                             *)
Loc(t, x) == x \in DOMAIN t => t[x].scope = "local"

LEMMA LocalAssigned ==
  ASSUME NEW t \in Tree, NEW x \in Names, NEW v \in Vals \union {Undef},
         NEW scope \in {"local", "global", "static"}, Loc(t, x), x \in DOMAIN t \/ scope = "local"
  PROVE  Linked(Assign(t, x, v, scope)) = Linked(t) /\ Own(Assign(t, x, v, scope)) = [n \in Names |-> IF n = x THEN v ELSE Own(t)[n]]
<1>u. PICK u : u = Assign(t, x, v, scope)
  OBVIOUS
<1>e. /\ DOMAIN u = DOMAIN t \union {x} /\ u[x].val = v /\ u[x].scope = Entry(t, x, scope)
      /\ \A y \in DOMAIN t : y # x => u[y] = t[y]
  <2>1. DOMAIN u = DOMAIN t \union {x}
    BY <1>u, AssignDomain
  <2>2. u[x].val = v
    BY <1>u, AssignValue
  <2>3. u[x].scope = Entry(t, x, scope)
    BY <1>u, AssignScope
  <2>4. \A y \in DOMAIN t : y # x => u[y] = t[y]
    BY <1>u, AssignOthers
  <2>5. QED
    BY <2>1, <2>2, <2>3, <2>4
<1>1. /\ DOMAIN u = DOMAIN t \union {x} /\ u[x].val = v /\ u[x].scope = "local"
      /\ \A y \in DOMAIN t : y # x => u[y] = t[y]
  BY <1>e DEF Loc, Entry
<1>2. \A n \in Names : Linked(u)[n] = Linked(t)[n]
  BY <1>1 DEF Linked, Loc
<1>3. Linked(u) = Linked(t)
  BY <1>2 DEF Linked
<1>4. \A n \in Names : Lookup(u, n) = IF n = x THEN v ELSE Lookup(t, n)
  BY <1>1 DEF Lookup
<1>5. Linked(t)[x] = "local"
  BY DEF Linked, Loc
<1>6. \A n \in Names : Own(u)[n] = IF n = x THEN v ELSE Own(t)[n]
  BY <1>3, <1>4, <1>5 DEF Own
<1>7. QED
  BY <1>u, <1>3, <1>6 DEF Own

LEMMA LocalErased ==
  ASSUME NEW t \in Tree, NEW x \in DOMAIN t, Loc(t, x), NEW u, u = Erase(t, x)
  PROVE  Linked(u) = Linked(t) /\ Own(u) = [n \in Names |-> IF n = x THEN Undef ELSE Own(t)[n]]
<1>1. /\ DOMAIN u = DOMAIN t /\ u[x].val = Undef /\ u[x].scope = "local"
      /\ \A y \in DOMAIN t : y # x => u[y] = t[y]
  BY Erased DEF Loc
<1>2. \A n \in Names : Linked(u)[n] = Linked(t)[n]
  BY <1>1 DEF Linked, Loc
<1>3. Linked(u) = Linked(t)
  BY <1>2 DEF Linked
<1>4. \A n \in Names : Lookup(u, n) = IF n = x THEN Undef ELSE Lookup(t, n)
  BY <1>1 DEF Lookup
<1>5. DOMAIN t \subseteq Names
  BY TreeParts
<1>6. Linked(t)[x] = "local"
  BY <1>5 DEF Linked, Loc
<1>7. \A n \in Names : Own(u)[n] = IF n = x THEN Undef ELSE Own(t)[n]
  BY <1>3, <1>4, <1>6 DEF Own
<1>8. QED
  BY <1>3, <1>7 DEF Own

(* An entry that leads elsewhere hides the value it has.                   *)
LEMMA LinkAssigned ==
  ASSUME NEW t \in Tree, NEW x \in Names, NEW v \in Vals \union {Undef},
         NEW scope \in {"local", "global", "static"}, ~Loc(t, x)
  PROVE  Linked(Assign(t, x, v, scope)) = Linked(t) /\ Own(Assign(t, x, v, scope)) = Own(t)
<1>u. PICK u : u = Assign(t, x, v, scope)
  OBVIOUS
<1>e. /\ DOMAIN u = DOMAIN t \union {x} /\ u[x].val = v /\ u[x].scope = Entry(t, x, scope)
      /\ \A y \in DOMAIN t : y # x => u[y] = t[y]
  <2>1. DOMAIN u = DOMAIN t \union {x}
    BY <1>u, AssignDomain
  <2>2. u[x].val = v
    BY <1>u, AssignValue
  <2>3. u[x].scope = Entry(t, x, scope)
    BY <1>u, AssignScope
  <2>4. \A y \in DOMAIN t : y # x => u[y] = t[y]
    BY <1>u, AssignOthers
  <2>5. QED
    BY <2>1, <2>2, <2>3, <2>4
<1>1. /\ x \in DOMAIN t /\ t[x].scope # "local" /\ DOMAIN u = DOMAIN t /\ u[x].scope = t[x].scope
      /\ \A y \in DOMAIN t : y # x => u[y] = t[y]
  BY <1>e DEF Loc, Entry
<1>2. \A n \in Names : Linked(u)[n] = Linked(t)[n]
  BY <1>1 DEF Linked
<1>3. Linked(u) = Linked(t)
  BY <1>2 DEF Linked
<1>4. \A n \in Names : n # x => Lookup(u, n) = Lookup(t, n)
  BY <1>1 DEF Lookup
<1>5. Linked(t)[x] # "local"
  BY <1>1 DEF Linked
<1>6. \A n \in Names : Own(u)[n] = Own(t)[n]
  BY <1>3, <1>4, <1>5 DEF Own
<1>7. QED
  BY <1>u, <1>3, <1>6 DEF Own

(* A declaration makes one.                                                *)
LEMMA LinkMade ==
  ASSUME NEW t \in Tree, NEW x \in Names, NEW v \in Vals \union {Undef},
         NEW scope \in {"global", "static"}, x \notin DOMAIN t
  PROVE  /\ Linked(t)[x] = "local" /\ Own(t)[x] = Undef
         /\ Linked(Assign(t, x, v, scope)) =
              [n \in Names |-> IF n = x THEN scope ELSE Linked(t)[n]]
         /\ Own(Assign(t, x, v, scope)) = Own(t)
<1>u. PICK u : u = Assign(t, x, v, scope)
  OBVIOUS
<1>e. /\ DOMAIN u = DOMAIN t \union {x} /\ u[x].val = v /\ u[x].scope = Entry(t, x, scope)
      /\ \A y \in DOMAIN t : y # x => u[y] = t[y]
  <2>1. DOMAIN u = DOMAIN t \union {x}
    BY <1>u, AssignDomain
  <2>2. u[x].val = v
    BY <1>u, AssignValue
  <2>3. u[x].scope = Entry(t, x, scope)
    BY <1>u, AssignScope
  <2>4. \A y \in DOMAIN t : y # x => u[y] = t[y]
    BY <1>u, AssignOthers
  <2>5. QED
    BY <2>1, <2>2, <2>3, <2>4
<1>0. scope \in {"local", "global", "static"} /\ scope # "local"
  OBVIOUS
<1>1. /\ DOMAIN u = DOMAIN t \union {x} /\ u[x].scope = scope
      /\ \A y \in DOMAIN t : y # x => u[y] = t[y]
  BY <1>0, <1>e DEF Entry
<1>2. Linked(t)[x] = "local" /\ Own(t)[x] = Undef
  BY DEF Linked, Own, Lookup
<1>3. \A n \in Names : Linked(u)[n] = IF n = x THEN scope ELSE Linked(t)[n]
  BY <1>1 DEF Linked
<1>4. \A n \in Names : n # x => Lookup(u, n) = Lookup(t, n)
  BY <1>1 DEF Lookup
<1>5. \A n \in Names : Own(u)[n] = Own(t)[n]
  BY <1>0, <1>2, <1>3, <1>4 DEF Own
<1>6. QED
  BY <1>u, <1>2, <1>3, <1>5 DEF Linked, Own
-----------------------------------------------------------------------------
(* How the state is seen. *)

Sees(fn, t) == [fn |-> fn, link |-> Linked(t), val |-> Own(t)]

LEMMA CallsAreSeen ==
  ASSUME PlainOK
  PROVE  /\ CallsSeen \in Seq({CallSeen(i) : i \in 1..Len(frames)})
         /\ Len(CallsSeen) = Len(frames) /\ DOMAIN CallsSeen = 1..Len(frames)
         /\ \A i \in 1..Len(frames) : CallsSeen[i] = CallSeen(i)
<1>1. frames \in Seq(Tree) /\ Len(frames) \in Nat /\ DOMAIN frames = 1..Len(frames)
  BY LenProperties DEF PlainOK, TypesInv, TreesOK
<1>2. CallsSeen = [i \in 1..Len(frames) |-> CallSeen(i)]
  BY <1>1 DEF CallsSeen
<1>3. PICK n, T : n = Len(frames) /\ T = {CallSeen(i) : i \in 1..Len(frames)}
  OBVIOUS
<1>4. CallsSeen \in [1..n -> T]
  BY <1>2, <1>3
<1>5. CallsSeen \in Seq(T) /\ Len(CallsSeen) = n
  BY <1>1, <1>3, <1>4, SeqDef, LenProperties
<1>6. QED
  BY <1>2, <1>3, <1>5

(* The innermost call.                                                     *)
LEMMA Innermost ==
  ASSUME PlainOK
  PROVE  /\ (CallsSeen = <<>>) <=> ~InCall
         /\ InCall => /\ Len(frames) \in 1..Len(frames)
                      /\ CallsSeen[Len(CallsSeen)] = Sees(curFunc, Here)
<1>1. /\ Len(CallsSeen) = Len(frames) /\ DOMAIN CallsSeen = 1..Len(frames)
      /\ \A i \in 1..Len(frames) : CallsSeen[i] = CallSeen(i)
      /\ CallsSeen \in Seq({CallSeen(i) : i \in 1..Len(frames)})
  BY CallsAreSeen
<1>2. Len(frames) \in Nat /\ (InCall <=> Len(frames) > 0)
  BY InACall
<1>3. (CallsSeen = <<>>) <=> ~InCall
  BY <1>1, <1>2, EmptySeq
<1>4. ASSUME InCall PROVE CallsSeen[Len(CallsSeen)] = Sees(curFunc, Here)
  <2>1. /\ curFunc = ctx[Len(ctx)].fn /\ Len(ctx) \in Nat /\ Here = frames[Len(frames)]
        /\ Len(frames) \in 1..Len(frames)
    BY <1>2, <1>4, InACall
  <2>2. Len(ctx) - Len(frames) + Len(frames) = Len(ctx)
    BY <2>1
  <2>3. CallsSeen[Len(CallsSeen)] = CallSeen(Len(frames))
    BY <1>1, <2>1
  <2>4. QED
    BY <2>1, <2>2, <2>3 DEF CallSeen, Sees
<1>5. QED
  BY <1>2, <1>3, <1>4

LEMMA SameCallsSeen ==
  ASSUME UNCHANGED <<frames, ctx>>
  PROVE  CallsSeen' = CallsSeen
BY DEF CallsSeen, CallSeen

(* The tree of the innermost call is written.                              *)
LEMMA FrameSeen ==
  ASSUME PlainOK, InCall, NEW t, frames' = [frames EXCEPT ![Len(frames)] = t], ctx' = ctx
  PROVE  CallsSeen' = [CallsSeen EXCEPT ![Len(CallsSeen)] = Sees(curFunc, t)]
<1>1. /\ Len(CallsSeen) = Len(frames) /\ DOMAIN CallsSeen = 1..Len(frames)
      /\ \A i \in 1..Len(frames) : CallsSeen[i] = CallSeen(i)
  BY CallsAreSeen
<1>2. /\ Len(frames) \in Nat /\ Len(frames) > 0 /\ Len(ctx) \in Nat
      /\ curFunc = ctx[Len(ctx)].fn
  BY InACall
<1>3. frames \in Seq(Tree) /\ DOMAIN frames = 1..Len(frames)
  BY LenProperties DEF PlainOK, TypesInv, TreesOK
<1>4. /\ DOMAIN frames' = 1..Len(frames) /\ Len(frames') = Len(frames)
      /\ frames'[Len(frames)] = t
      /\ \A i \in 1..Len(frames) : i # Len(frames) => frames'[i] = frames[i]
  <2>1. IsStack(frames) /\ Len(frames) \in 1..Len(frames)
    BY <1>2, <1>3 DEF IsStack
  <2>2. Len([frames EXCEPT ![Len(frames)] = t]) = Len(frames)
    BY <2>1, StackReplaced
  <2>3. DOMAIN frames' = 1..Len(frames)
    BY <1>3
  <2>4. frames'[Len(frames)] = t
    BY <1>2, <1>3
  <2>5. \A i \in 1..Len(frames) : i # Len(frames) => frames'[i] = frames[i]
    BY <1>3
  <2>6. QED
    BY <2>2, <2>3, <2>4, <2>5
<1>5. CallsSeen' = [i \in 1..Len(frames) |-> CallSeen(i)']
  BY <1>4 DEF CallsSeen
<1>6. CallSeen(Len(frames))' = Sees(curFunc, t)
  <2>1. Len(ctx) - Len(frames) + Len(frames) = Len(ctx)
    BY <1>2
  <2>2. QED
    BY <1>2, <1>4, <2>1 DEF CallSeen, Sees
<1>7. \A i \in 1..Len(frames) : i # Len(frames) => CallSeen(i)' = CallSeen(i)
  BY <1>4 DEF CallSeen
<1>8. PICK cs, n, c : cs = CallsSeen /\ n = Len(frames) /\ c = Sees(curFunc, t)
  OBVIOUS
<1>9. cs = [i \in 1..n |-> CallSeen(i)]
  BY <1>3, <1>8 DEF CallsSeen
<1>10. CallsSeen' = [cs EXCEPT ![n] = c]
  BY <1>2, <1>5, <1>6, <1>7, <1>8, <1>9
<1>11. QED
  BY <1>1, <1>8, <1>10
-----------------------------------------------------------------------------
(* Steps of Scopes. *)

(* A variable is written where its link leads.                             *)
Written(f, x, v) == [n \in Names |-> IF n = x THEN v ELSE f[n]]

LEMMA PageWritten ==
  ASSUME PlainOK, NEW x \in Names, NEW v \in Vals \union {Undef}, UNCHANGED <<frames, statics, ctx>>,
         Seen(main') = Written(Seen(main), x, v),
         InCall => Linked(Here)[x] = "global" /\ Lookup(main, x) # Undef
  PROVE  S!Next
<1>1. CallsSeen' = CallsSeen /\ StaticsSeen' = StaticsSeen
  BY SameCallsSeen DEF StaticsSeen
<1>2. PageSeen' = [PageSeen EXCEPT ![x] = v]
  <2>1. PageSeen = [n \in Names |-> Lookup(main, n)]
    BY DEF PageSeen, Seen
  <2>2. PageSeen' = [n \in Names |-> IF n = x THEN v ELSE PageSeen[n]]
    BY DEF PageSeen, Written
  <2>3. QED
    BY <2>1, <2>2
<1>3. S!Link(x) = "global"
  <2>1. CASE InCall
    <3>1. CallsSeen # <<>> /\ CallsSeen[Len(CallsSeen)] = Sees(curFunc, Here)
      BY <2>1, Innermost
    <3>2. CallsSeen[Len(CallsSeen)].link[x] = "global"
      BY <2>1, <3>1 DEF Sees
    <3>3. QED
      BY <3>1, <3>2 DEF S!Link, S!Mine
  <2>2. CASE ~InCall
    BY <2>2, Innermost DEF S!Link
  <2>3. QED
    BY <2>1, <2>2
<1>4. CallsSeen = <<>> \/ PageSeen[x] # Undef
  BY Innermost DEF PageSeen, Seen
<1>5. S!Set(x, v)
  BY <1>1, <1>2, <1>3, <1>4 DEF S!Set
<1>6. QED
  BY <1>5 DEF S!Next

LEMMA StaticSeen ==
  ASSUME PlainOK, InCall, NEW t, statics' = [statics EXCEPT ![curFunc] = t]
  PROVE  /\ StaticsSeen' = [StaticsSeen EXCEPT ![curFunc] = Seen(t)]
         /\ curFunc \in Funcs /\ StaticsSeen[curFunc] = Seen(statics[curFunc])
<1>1. curFunc \in Funcs /\ statics \in [Funcs -> Tree]
  BY InACall DEF PlainOK, TypesInv, TreesOK
<1>2. \A f \in Funcs : statics'[f] = IF f = curFunc THEN t ELSE statics[f]
  BY <1>1
<1>3. StaticsSeen' = [f \in Funcs |-> Seen(statics'[f])] /\ StaticsSeen = [f \in Funcs |-> Seen(statics[f])]
  BY DEF StaticsSeen
<1>4. PICK ss, z : ss = StaticsSeen /\ z = Seen(t)
  OBVIOUS
<1>5. StaticsSeen' = [ss EXCEPT ![curFunc] = z]
  BY <1>1, <1>2, <1>3, <1>4
<1>6. QED
  BY <1>1, <1>3, <1>4, <1>5

LEMMA StaticWritten ==
  ASSUME PlainOK, InCall, NEW x \in Names, NEW v \in Vals \union {Undef}, UNCHANGED <<main, frames, ctx>>,
         NEW t, statics' = [statics EXCEPT ![curFunc] = t], Seen(t) = Written(Seen(statics[curFunc]), x, v),
         Linked(Here)[x] = "static"
  PROVE  S!Next
<1>1. CallsSeen' = CallsSeen /\ PageSeen' = PageSeen
  BY SameCallsSeen DEF PageSeen
<1>2. /\ StaticsSeen' = [StaticsSeen EXCEPT ![curFunc] = Seen(t)]
      /\ curFunc \in Funcs /\ StaticsSeen[curFunc] = Seen(statics[curFunc])
  BY StaticSeen
<1>3. CallsSeen # <<>> /\ CallsSeen[Len(CallsSeen)] = Sees(curFunc, Here)
  BY Innermost
<1>4. S!Mine.fn = curFunc /\ S!Link(x) = "static"
  BY <1>3 DEF S!Link, S!Mine, Sees
<1>5. StaticsSeen' = [StaticsSeen EXCEPT ![curFunc][x] = v]
  <2>1. PICK ss, w, z : ss = StaticsSeen /\ w = Seen(statics[curFunc]) /\ z = Seen(t)
    OBVIOUS
  <2>2. w = [n \in Names |-> Lookup(statics[curFunc], n)]
    BY <2>1 DEF Seen
  <2>3. z = [w EXCEPT ![x] = v]
    BY <2>1, <2>2 DEF Written
  <2>4. ss[curFunc] = w
    BY <1>2, <2>1
  <2>5. [ss EXCEPT ![curFunc] = z] = [ss EXCEPT ![curFunc][x] = v]
    BY <2>3, <2>4
  <2>6. QED
    BY <1>2, <2>1, <2>5
<1>6. S!Set(x, v)
  BY <1>1, <1>4, <1>5 DEF S!Set
<1>7. QED
  BY <1>6 DEF S!Next

LEMMA OwnWritten ==
  ASSUME PlainOK, InCall, NEW x \in Names, NEW v \in Vals \union {Undef}, UNCHANGED <<main, statics, ctx>>,
         NEW t, frames' = [frames EXCEPT ![Len(frames)] = t], Linked(t) = Linked(Here),
         Own(t) = Written(Own(Here), x, v), Linked(Here)[x] = "local"
  PROVE  S!Next
<1>1. StaticsSeen' = StaticsSeen /\ PageSeen' = PageSeen
  BY DEF StaticsSeen, PageSeen
<1>2. CallsSeen' = [CallsSeen EXCEPT ![Len(CallsSeen)] = Sees(curFunc, t)]
  BY FrameSeen
<1>3. CallsSeen # <<>> /\ CallsSeen[Len(CallsSeen)] = Sees(curFunc, Here)
  BY Innermost
<1>4. S!Link(x) = "local"
  BY <1>3 DEF S!Link, S!Mine, Sees
<1>5. CallsSeen' = [CallsSeen EXCEPT ![Len(CallsSeen)].val[x] = v]
  <2>1. PICK cs, n, l, w, z : cs = CallsSeen /\ n = Len(CallsSeen) /\ l = Linked(Here) /\ w = Own(Here) /\ z = Own(t)
    OBVIOUS
  <2>2. w = [m \in Names |-> w[m]]
    BY <2>1 DEF Own
  <2>3. z = [w EXCEPT ![x] = v]
    BY <2>1, <2>2 DEF Written
  <2>4. cs[n] = [fn |-> curFunc, link |-> l, val |-> w]
    BY <1>3, <2>1 DEF Sees
  <2>5. [cs EXCEPT ![n].val[x] = v] = [cs EXCEPT ![n] = [fn |-> curFunc, link |-> l, val |-> z]]
    <3>1. PICK r : r = cs[n]
      OBVIOUS
    <3>2. r.val = w
      BY <2>4, <3>1
    <3>3. [r EXCEPT !.val = z] = [fn |-> curFunc, link |-> l, val |-> z]
      BY <2>4, <3>1
    <3>4. [r EXCEPT !.val[x] = v] = [r EXCEPT !.val = z]
      BY <2>3, <3>2
    <3>5. [cs EXCEPT ![n].val[x] = v] = [cs EXCEPT ![n] = [r EXCEPT !.val[x] = v]]
      BY <3>1
    <3>6. QED
      BY <3>3, <3>4, <3>5
  <2>6. CallsSeen' = [cs EXCEPT ![n] = [fn |-> curFunc, link |-> l, val |-> z]]
    BY <1>2, <2>1 DEF Sees
  <2>7. QED
    BY <2>1, <2>5, <2>6
<1>6. S!Set(x, v)
  BY <1>1, <1>4, <1>5 DEF S!Set
<1>7. QED
  BY <1>6 DEF S!Next

(* What a tree hides may change.                                           *)
LEMMA HiddenWritten ==
  ASSUME PlainOK, InCall, UNCHANGED <<main, statics, ctx>>,
         NEW t, frames' = [frames EXCEPT ![Len(frames)] = t], Linked(t) = Linked(Here), Own(t) = Own(Here)
  PROVE  UNCHANGED S!vars
<1>1. StaticsSeen' = StaticsSeen /\ PageSeen' = PageSeen
  BY DEF StaticsSeen, PageSeen
<1>2. CallsSeen' = [CallsSeen EXCEPT ![Len(CallsSeen)] = Sees(curFunc, t)]
  BY FrameSeen
<1>3. CallsSeen[Len(CallsSeen)] = Sees(curFunc, Here) /\ Sees(curFunc, t) = Sees(curFunc, Here)
  BY Innermost DEF Sees
<1>4. CallsSeen' = CallsSeen
  <2>1. PICK cs, n, c : cs = CallsSeen /\ n = Len(CallsSeen) /\ c = Sees(curFunc, t)
    OBVIOUS
  <2>2. CallsSeen' = [cs EXCEPT ![n] = c] /\ cs[n] = c
    BY <1>2, <1>3, <2>1
  <2>3. cs = [i \in DOMAIN cs |-> cs[i]]
    BY <2>1 DEF CallsSeen
  <2>4. [cs EXCEPT ![n] = c] = cs
    BY <2>2, <2>3
  <2>5. QED
    BY <2>1, <2>2, <2>4
<1>5. QED
  BY <1>1, <1>4 DEF S!vars
(* A variable without a value is declared in the call.                     *)
LEMMA LinkWritten ==
  ASSUME PlainOK, InCall, NEW x \in Names, NEW link \in {"global", "static"}, UNCHANGED ctx,
         NEW t, frames' = [frames EXCEPT ![Len(frames)] = t], Own(t) = Own(Here),
         Linked(t) = Written(Linked(Here), x, link),
         Linked(Here)[x] = "local", Own(Here)[x] = Undef
  PROVE  S!Declare(x, link) /\ S!Mine.fn = curFunc
<1>1. CallsSeen' = [CallsSeen EXCEPT ![Len(CallsSeen)] = Sees(curFunc, t)]
  BY FrameSeen
<1>2. CallsSeen # <<>> /\ CallsSeen[Len(CallsSeen)] = Sees(curFunc, Here)
  BY Innermost
<1>3. S!Mine.link[x] = "local" /\ S!Mine.val[x] = Undef /\ S!Mine.fn = curFunc
  BY <1>2 DEF S!Mine, Sees
<1>4. CallsSeen' = [CallsSeen EXCEPT ![Len(CallsSeen)].link[x] = link]
  <2>1. PICK cs, n, l, w, z : cs = CallsSeen /\ n = Len(CallsSeen) /\ w = Linked(Here) /\ z = Linked(t) /\ l = Own(Here)
    OBVIOUS
  <2>2. w = [m \in Names |-> w[m]]
    BY <2>1 DEF Linked
  <2>3. z = [w EXCEPT ![x] = link]
    BY <2>1, <2>2 DEF Written
  <2>4. cs[n] = [fn |-> curFunc, link |-> w, val |-> l]
    BY <1>2, <2>1 DEF Sees
  <2>5. [cs EXCEPT ![n].link[x] = link] = [cs EXCEPT ![n] = [fn |-> curFunc, link |-> z, val |-> l]]
    <3>1. PICK r : r = cs[n]
      OBVIOUS
    <3>2. r.link = w
      BY <2>4, <3>1
    <3>3. [r EXCEPT !.link = z] = [fn |-> curFunc, link |-> z, val |-> l]
      BY <2>4, <3>1
    <3>4. [r EXCEPT !.link[x] = link] = [r EXCEPT !.link = z]
      BY <2>3, <3>2
    <3>5. [cs EXCEPT ![n].link[x] = link] = [cs EXCEPT ![n] = [r EXCEPT !.link[x] = link]]
      BY <3>1
    <3>6. QED
      BY <3>3, <3>4, <3>5
  <2>6. CallsSeen' = [cs EXCEPT ![n] = [fn |-> curFunc, link |-> z, val |-> l]]
    BY <1>1, <2>1 DEF Sees
  <2>7. QED
    BY <2>1, <2>5, <2>6
<1>5. QED
  BY <1>2, <1>3, <1>4 DEF S!Declare

(* A static variable gets its value where the function is first declared   *)
(* to have it.                                                             *)
LEMMA StaticFirst ==
  ASSUME PlainOK, InCall, NEW x \in Names, NEW v \in Vals, UNCHANGED main,
         S!Declare(x, "static"), S!Mine.fn = curFunc,
         NEW t, statics' = [statics EXCEPT ![curFunc] = t], Seen(t) = Written(Seen(statics[curFunc]), x, v),
         Seen(statics[curFunc])[x] = Undef
  PROVE  S!Next
<1>1. PageSeen' = PageSeen
  BY DEF PageSeen
<1>2. /\ StaticsSeen' = [StaticsSeen EXCEPT ![curFunc] = Seen(t)]
      /\ curFunc \in Funcs /\ StaticsSeen[curFunc] = Seen(statics[curFunc])
  BY StaticSeen
<1>3. StaticsSeen' = [StaticsSeen EXCEPT ![curFunc][x] = IF @ = Undef THEN v ELSE @]
  <2>1. PICK ss, w, z : ss = StaticsSeen /\ w = Seen(statics[curFunc]) /\ z = Seen(t)
    OBVIOUS
  <2>2. w = [n \in Names |-> Lookup(statics[curFunc], n)]
    BY <2>1 DEF Seen
  <2>3. z = [w EXCEPT ![x] = v]
    BY <2>1, <2>2 DEF Written
  <2>4. ss[curFunc] = w /\ w[x] = Undef
    BY <1>2, <2>1
  <2>5. [ss EXCEPT ![curFunc] = z] = [ss EXCEPT ![curFunc][x] = IF @ = Undef THEN v ELSE @]
    BY <2>3, <2>4
  <2>6. QED
    BY <1>2, <2>1, <2>5
<1>4. S!Static(x, v)
  BY <1>1, <1>3 DEF S!Static
<1>5. QED
  BY <1>4 DEF S!Next

LEMMA StaticAgain ==
  ASSUME PlainOK, InCall, NEW x \in Names, NEW v \in Vals, UNCHANGED <<main, statics>>,
         S!Declare(x, "static"), S!Mine.fn = curFunc, Seen(statics[curFunc])[x] # Undef
  PROVE  S!Next
<1>1. PageSeen' = PageSeen /\ StaticsSeen' = StaticsSeen
  BY DEF PageSeen, StaticsSeen
<1>2. curFunc \in Funcs /\ StaticsSeen[curFunc] = Seen(statics[curFunc])
  BY InACall DEF StaticsSeen
<1>3. StaticsSeen = [StaticsSeen EXCEPT ![curFunc][x] = IF @ = Undef THEN v ELSE @]
  <2>1. PICK ss, w : ss = StaticsSeen /\ w = Seen(statics[curFunc])
    OBVIOUS
  <2>2. w = [n \in Names |-> w[n]] /\ ss = [f \in Funcs |-> ss[f]]
    BY <2>1 DEF Seen, StaticsSeen
  <2>3. ss[curFunc] = w /\ w[x] # Undef
    BY <1>2, <2>1
  <2>4. [w EXCEPT ![x] = w[x]] = w
    BY <2>2
  <2>5. [ss EXCEPT ![curFunc][x] = IF @ = Undef THEN v ELSE @] = [ss EXCEPT ![curFunc] = w]
    BY <2>3, <2>4
  <2>6. [ss EXCEPT ![curFunc] = w] = ss
    BY <2>2, <2>3
  <2>7. QED
    BY <2>1, <2>5, <2>6
<1>4. S!Static(x, v)
  BY <1>1, <1>3 DEF S!Static
<1>5. QED
  BY <1>4 DEF S!Next

(* A call begins: its tree holds the arguments, and all links are local.   *)
LEMMA CallBegins ==
  ASSUME PlainOK, NEW f \in Funcs, NEW D \in SUBSET Names, NEW args \in [D -> Vals], Call(f, args)
  PROVE  S!Next
<1>1. PICK t : t = [n \in DOMAIN args |-> Var(args[n], "local")]
  OBVIOUS
<1>2. PICK text : text = [kind |-> "call", fn |-> f]
  OBVIOUS
<1>3. /\ ctx' = Append(ctx, text) /\ frames' = Append(frames, t)
      /\ UNCHANGED <<main, statics>>
  BY <1>1, <1>2 DEF Call, Read
<1>4. t \in Tree /\ DOMAIN t = D /\ \A x \in D : t[x].val = args[x] /\ t[x].scope = "local"
  BY <1>1, ArgumentsTree
<1>5. Linked(t) = [n \in Names |-> "local"]
  BY <1>4 DEF Linked
<1>6. Own(t) \in [Names -> Vals \union {Undef}]
  <2>1. \A n \in Names : Lookup(t, n) \in Vals \union {Undef}
    BY <1>4 DEF Lookup
  <2>2. QED
    BY <2>1 DEF Own
<1>7. PICK n, d : n = Len(frames) /\ d = Len(ctx)
  OBVIOUS
<1>8. /\ frames \in Seq(Tree) /\ ctx \in Seq(Text) /\ text \in Text
      /\ n \in Nat /\ d \in Nat /\ n < d
  <2>1. frames \in Seq(Tree) /\ ctx \in Seq(Text) /\ ctx # <<>>
    BY DEF PlainOK, TypesInv, TreesOK, ReaderTypes, ReadOK, CtxOK
  <2>2. n \in Nat /\ d \in Nat \ {0} /\ n < d
    BY <1>7, <2>1, InACall, EmptySeq, LenProperties
  <2>3. QED
    BY <1>2, <2>1, <2>2 DEF Text, Kinds
<1>9. /\ frames' \in Seq(Tree) /\ Len(frames') = n + 1 /\ frames'[n + 1] = t
      /\ \A i \in 1..n : frames'[i] = frames[i]
  BY <1>3, <1>4, <1>7, <1>8, Pushed
<1>10. /\ Len(ctx') = d + 1 /\ ctx'[d + 1] = text
       /\ \A i \in 1..d : ctx'[i] = ctx[i]
  BY <1>3, <1>7, <1>8, Pushed
<1>11. /\ CallsSeen \in Seq({CallSeen(i) : i \in 1..Len(frames)})
       /\ Len(CallsSeen) = n /\ \A i \in 1..n : CallsSeen[i] = CallSeen(i)
  BY <1>7, CallsAreSeen
<1>12. CallsSeen' = [i \in 1..n + 1 |-> CallSeen(i)']
  BY <1>9, LenProperties DEF CallsSeen
<1>13. \A i \in 1..n : CallSeen(i)' = CallsSeen[i]
  <2> TAKE i \in 1..n
  <2>1. d + 1 - (n + 1) + i = d - n + i /\ d - n + i \in 1..d
    BY <1>8
  <2>2. CallSeen(i)' = CallSeen(i)
    BY <1>7, <1>9, <1>10, <2>1 DEF CallSeen
  <2>3. QED
    BY <1>11, <2>2
<1>14. PICK c : c = [fn |-> f, link |-> [m \in Names |-> "local"], val |-> Own(t)]
  OBVIOUS
<1>15. CallSeen(n + 1)' = c
  <2>1. d + 1 - (n + 1) + (n + 1) = d + 1
    BY <1>8
  <2>2. text.fn = f
    BY <1>2
  <2>3. QED
    BY <1>5, <1>9, <1>10, <1>14, <2>1, <2>2 DEF CallSeen
<1>16. CallsSeen' = Append(CallsSeen, c)
  <2>1. PICK cs : cs = CallsSeen
    OBVIOUS
  <2>2. PICK T : cs \in Seq(T) /\ c \in T
    <3>1. cs \in Seq({CallSeen(i) : i \in 1..Len(frames)} \union {c})
      BY <1>11, <2>1
    <3>2. QED
      BY <3>1
  <2>3. /\ Append(cs, c) \in Seq(T) /\ Len(Append(cs, c)) = n + 1
        /\ Append(cs, c)[n + 1] = c /\ \A i \in 1..n : Append(cs, c)[i] = cs[i]
    BY <1>11, <2>1, <2>2, Pushed
  <2>4. Append(cs, c) = [i \in 1..n + 1 |-> Append(cs, c)[i]]
    BY <2>3, LenProperties
  <2>5. \A i \in 1..n + 1 : CallSeen(i)' = Append(cs, c)[i]
    <3> TAKE i \in 1..n + 1
    <3>1. i \in 1..n \/ i = n + 1
      BY <1>8
    <3>2. QED
      BY <1>13, <1>15, <2>1, <2>3, <3>1
  <2>6. QED
    BY <1>12, <2>1, <2>4, <2>5
<1>17. PageSeen' = PageSeen /\ StaticsSeen' = StaticsSeen
  BY <1>3 DEF PageSeen, StaticsSeen
<1>18. S!Call(f, Own(t))
  BY <1>14, <1>16, <1>17 DEF S!Call
<1>19. QED
  BY <1>6, <1>18 DEF S!Next
(* A call ends.                                                            *)
LEMMA CallEnds ==
  ASSUME PlainOK, InCall, frames' = Front(frames), ctx' = Front(ctx), UNCHANGED <<main, statics>>
  PROVE  S!Next
<1>1. PICK n, d : n = Len(frames) /\ d = Len(ctx)
  OBVIOUS
<1>2. /\ frames \in Seq(Tree) /\ ctx \in Seq(Text) /\ frames # <<>> /\ ctx # <<>>
  BY DEF PlainOK, TypesInv, TreesOK, ReaderTypes, ReadOK, CtxOK, InCall
<1>3. n \in Nat \ {0} /\ d \in Nat \ {0} /\ n < d
  BY <1>1, <1>2, InACall, EmptySeq, LenProperties
<1>4. /\ frames' \in Seq(Tree) /\ Len(frames') = n - 1
      /\ \A i \in 1..n - 1 : frames'[i] = frames[i]
  BY <1>1, <1>2, Popped
<1>5. Len(ctx') = d - 1 /\ \A i \in 1..d - 1 : ctx'[i] = ctx[i]
  BY <1>1, <1>2, Popped
<1>6. CallsSeen' = [i \in 1..n - 1 |-> CallSeen(i)']
  BY <1>4, LenProperties DEF CallsSeen
<1>7. /\ CallsSeen \in Seq({CallSeen(i) : i \in 1..Len(frames)})
      /\ Len(CallsSeen) = n /\ \A i \in 1..n : CallsSeen[i] = CallSeen(i)
  BY <1>1, CallsAreSeen
<1>8. \A i \in 1..n - 1 : CallSeen(i)' = CallsSeen[i]
  <2> TAKE i \in 1..n - 1
  <2>1. d - 1 - (n - 1) + i = d - n + i /\ d - n + i \in 1..d - 1 /\ i \in 1..n
    BY <1>3
  <2>2. CallSeen(i)' = CallSeen(i)
    BY <1>1, <1>4, <1>5, <2>1 DEF CallSeen
  <2>3. QED
    BY <1>7, <2>1, <2>2
<1>9. CallsSeen' = SubSeq(CallsSeen, 1, Len(CallsSeen) - 1)
  <2>1. PICK cs, m : cs = CallsSeen /\ m = n - 1
    OBVIOUS
  <2>2. PICK T : cs \in Seq(T)
    BY <1>7, <2>1
  <2>3. Len(cs) = n /\ m \in 0..Len(cs) /\ \A i \in 1..m : cs[i] \in T
    BY <1>3, <1>7, <2>1, <2>2, ElementOfSeq
  <2>4. /\ SubSeq(cs, 1, m) \in Seq(T) /\ Len(SubSeq(cs, 1, m)) = m
        /\ \A i \in 1..m : SubSeq(cs, 1, m)[i] = cs[i]
    BY <1>3, <2>2, <2>3, SubSeqProperties
  <2>5. SubSeq(cs, 1, m) = [i \in 1..m |-> SubSeq(cs, 1, m)[i]]
    BY <2>4, LenProperties
  <2>6. CallsSeen' = SubSeq(cs, 1, m)
    BY <1>6, <1>8, <2>1, <2>4, <2>5
  <2>7. QED
    BY <1>7, <2>1, <2>6
<1>10. CallsSeen # <<>>
  BY Innermost
<1>11. PageSeen' = PageSeen /\ StaticsSeen' = StaticsSeen
  BY DEF PageSeen, StaticsSeen
<1>12. S!Return
  BY <1>9, <1>10, <1>11 DEF S!Return
<1>13. QED
  BY <1>12 DEF S!Next

-----------------------------------------------------------------------------
(* Each step on a plain page keeps the invariant and is one of Scopes.     *)

Refines == PlainTrees' /\ (S!Next \/ UNCHANGED S!vars)

(* What a statement leaves of the trees.                                   *)
LEMMA TreesKept ==
  ASSUME PlainOK, UNCHANGED <<reader, ctx>>, ~inMain', Len(frames') = Len(frames), IsStack(frames'),
         \A i \in 1..Len(frames) - 1 : frames'[i] = frames[i],
         main # Empty => main' # Empty,
         AllLocal(main'), \A f \in Funcs : AllLocal(statics'[f])
  PROVE  PlainTrees'
<1>1. frames' # <<>> => frames # <<>>
  <2>1. (frames' # <<>>) <=> Len(frames') # 0
    BY EmptySeq DEF IsStack
  <2>2. (frames # <<>>) <=> Len(frames) # 0
    BY EmptySeq DEF PlainOK, TypesInv, TreesOK
  <2>3. QED
    BY <2>1, <2>2
<1>2. Top' = Top /\ fileSize' = fileSize
  BY DEF Top, reader
<1>3. FramesOK'
  BY <1>1, <1>2 DEF PlainOK, PlainTrees, FramesOK
<1>4. QED
  BY <1>3 DEF PlainTrees

LEMMA PageKept ==
  ASSUME PlainOK, UNCHANGED <<reader, ctx, frames, statics>>, ~inMain',
         main # Empty => main' # Empty, AllLocal(main')
  PROVE  PlainTrees'
<1>1. IsStack(frames) /\ \A f \in Funcs : AllLocal(statics[f])
  BY DEF PlainOK, PlainTrees, TypesInv, TreesOK, IsStack
<1>2. QED
  BY <1>1, TreesKept

LEMMA StaticKept ==
  ASSUME PlainOK, InCall, UNCHANGED <<reader, ctx, main, frames>>, ~inMain',
         NEW t, AllLocal(t), statics' = [statics EXCEPT ![curFunc] = t]
  PROVE  PlainTrees'
<1>1. IsStack(frames) /\ AllLocal(main) /\ statics \in [Funcs -> Tree] /\ \A f \in Funcs : AllLocal(statics[f])
  BY DEF PlainOK, PlainTrees, TypesInv, TreesOK, IsStack
<1>2. \A f \in Funcs : AllLocal(statics'[f])
  BY <1>1
<1>3. QED
  BY <1>1, <1>2, TreesKept

LEMMA FrameKept ==
  ASSUME PlainOK, InCall, UNCHANGED <<reader, ctx, main>>, ~inMain',
         NEW t, frames' = [frames EXCEPT ![Len(frames)] = t], \A f \in Funcs : AllLocal(statics'[f])
  PROVE  PlainTrees'
<1>1. IsStack(frames) /\ AllLocal(main) /\ Len(frames) \in 1..Len(frames)
  BY Innermost DEF PlainOK, PlainTrees, TypesInv, TreesOK, IsStack
<1>2. IsStack(frames') /\ Len(frames') = Len(frames)
  BY <1>1, StackReplaced
<1>3. \A i \in 1..Len(frames) - 1 : frames'[i] = frames[i]
  <2>1. frames \in Seq(Tree)
    BY DEF PlainOK, TypesInv, TreesOK
  <2>2. QED
    BY <1>1, <2>1
<1>4. QED
  BY <1>1, <1>2, <1>3, TreesKept

(* The trees of a plain page, and what is in them.                         *)
LEMMA PlainParts ==
  ASSUME PlainOK
  PROVE  /\ main \in Tree /\ Here \in Tree /\ statics \in [Funcs -> Tree]
         /\ AllLocal(main) /\ \A f \in Funcs : AllLocal(statics[f])
         /\ ~inMain /\ TreesOK
<1>1. TreesOK
  BY DEF PlainOK, TypesInv
<1>2. QED
  BY <1>1, HereTree DEF PlainOK, PlainTrees, FramesOK, TreesOK

LEMMA SetRefines ==
  ASSUME PlainOK, Plain, NEW x \in Names, NEW v \in Vals, Set(x, v)
  PROVE  Refines
<1>0. SetVar(x, v) /\ UNCHANGED <<reader, ctx>> /\ UNCHANGED ctx
  BY DEF Set
<1>1. /\ main \in Tree /\ Here \in Tree /\ statics \in [Funcs -> Tree]
      /\ AllLocal(main) /\ (\A f \in Funcs : AllLocal(statics[f])) /\ ~inMain
  BY PlainParts
<1>2. ~InCall => Here = main /\ frames = <<>>
  BY InACall
<1>3. PICK m : m = Assign(main, x, v, "local")
  OBVIOUS
<1>4. m # Empty /\ AllLocal(m) /\ Seen(m) = Written(Seen(main), x, v)
  <2>1. m # Empty
    BY <1>1, <1>3, Assigned
  <2>2. AllLocal(m)
    BY <1>1, <1>3, AssignLocal
  <2>3. Seen(m) = Written(Seen(main), x, v)
    BY <1>1, <1>3, SeenAssigned DEF Written
  <2>4. QED
    BY <2>1, <2>2, <2>3
<1>5. ASSUME ~inMain', main' = m, UNCHANGED <<frames, statics>>,
             InCall => Linked(Here)[x] = "global" /\ Lookup(main, x) # Undef
      PROVE  Refines
  <2>1. PlainTrees'
    BY <1>0, <1>4, <1>5, PageKept
  <2>2. S!Next
    BY <1>0, <1>4, <1>5, PageWritten
  <2>3. QED
    BY <2>1, <2>2 DEF Refines
<1>6. CASE ~InCall
  <2>1. Scope(Here, x) = "local"
    BY <1>6 DEF Scope
  <2>2. PutHere(Assign(Here, x, v, "local")) /\ UNCHANGED <<inMain, statics, crashed>>
    BY <1>0, <2>1 DEF SetVar
  <2>3. main' = m /\ UNCHANGED frames
    BY <1>2, <1>3, <1>6, <2>2 DEF PutHere, InTree
  <2>4. QED
    BY <1>1, <1>5, <1>6, <2>2, <2>3
<1>7. CASE InCall /\ Scope(Here, x) = "global"
  <2>1. SetMain(x, v) /\ BackToFrame /\ UNCHANGED frames
    BY <1>0, <1>7 DEF SetVar
  <2>2. Scope(main, x) = "local"
    BY <1>1 DEF Scope, AllLocal
  <2>3. main # Empty
    BY <1>7, InACall
  <2>4. main' = m /\ UNCHANGED statics
    BY <1>3, <2>1, <2>2, <2>3 DEF SetMain
  <2>5. Linked(Here)[x] = "global"
    BY <1>7 DEF Scope, Linked
  <2>6. Lookup(main, x) # Undef
    BY <1>7 DEF Set, HasGlobal, Plain
  <2>7. QED
    BY <1>5, <2>1, <2>4, <2>5, <2>6 DEF BackToFrame
<1>8. CASE InCall /\ Scope(Here, x) = "static"
  <2>1. PutStatic(x, v) /\ frames' = Adopt(x, v) /\ BackToFrame /\ UNCHANGED <<main, crashed>>
    BY <1>0, <1>8 DEF SetVar
  <2>2. curFunc \in Funcs /\ curFunc # None
    BY <1>8, InACall, CallsAssumption
  <2>3. frames' = frames
    BY <2>1, <2>2 DEF Adopt
  <2>4. PICK t : t = Assign(statics[curFunc], x, v, "local")
    OBVIOUS
  <2>5. statics' = [statics EXCEPT ![curFunc] = t]
    BY <2>1, <2>2, <2>4 DEF PutStatic
  <2>6. AllLocal(t)
    BY <1>1, <2>2, <2>4, AssignLocal
  <2>7. Seen(t) = Written(Seen(statics[curFunc]), x, v)
    BY <1>1, <2>2, <2>4, SeenAssigned DEF Written
  <2>8. Linked(Here)[x] = "static"
    BY <1>8 DEF Scope, Linked
  <2>9. PlainTrees'
    BY <1>0, <1>8, <2>1, <2>3, <2>5, <2>6, StaticKept DEF BackToFrame
  <2>10. S!Next
    BY <1>0, <1>8, <2>1, <2>3, <2>5, <2>7, <2>8, StaticWritten
  <2>11. QED
    BY <2>9, <2>10 DEF Refines
<1>9. CASE InCall /\ Scope(Here, x) # "global" /\ Scope(Here, x) # "static"
  <2>1. PutHere(Assign(Here, x, v, "local")) /\ UNCHANGED <<inMain, statics, crashed>>
    BY <1>0, <1>9 DEF SetVar
  <2>2. PICK t : t = Assign(Here, x, v, "local")
    OBVIOUS
  <2>3. frames' = [frames EXCEPT ![Len(frames)] = t] /\ UNCHANGED main
    BY <1>1, <1>9, <2>1, <2>2 DEF PutHere, InTree
  <2>4. Loc(Here, x)
    <3>1. x \in DOMAIN Here => Here[x] \in Variable
      BY <1>1, TreeParts
    <3>2. QED
      BY <1>9, <3>1, VariableParts DEF Loc, Scope
  <2>5. Linked(t) = Linked(Here) /\ Own(t) = Written(Own(Here), x, v)
    BY <1>1, <2>2, <2>4, LocalAssigned DEF Written
  <2>6. Linked(Here)[x] = "local"
    BY <2>4 DEF Loc, Linked
  <2>7. PlainTrees'
    BY <1>0, <1>1, <1>9, <2>1, <2>3, FrameKept
  <2>8. S!Next
    BY <1>0, <1>9, <2>1, <2>3, <2>5, <2>6, OwnWritten
  <2>9. QED
    BY <2>7, <2>8 DEF Refines
<1>10. QED
  BY <1>6, <1>7, <1>8, <1>9
LEMMA UnSetRefines ==
  ASSUME PlainOK, NEW x \in Names, UnSet(x)
  PROVE  Refines
<1>0. GetVar(x) # Undef /\ UNCHANGED <<inMain, crashed, reader, ctx>> /\ UNCHANGED ctx
  BY DEF UnSet
<1>1. /\ main \in Tree /\ Here \in Tree /\ statics \in [Funcs -> Tree]
      /\ AllLocal(main) /\ (\A f \in Funcs : AllLocal(statics[f])) /\ ~inMain /\ TreesOK
  BY PlainParts
<1>2. ~InCall => Here = main /\ frames = <<>>
  BY InACall
<1>3. Undef \in Vals \union {Undef}
  OBVIOUS
<1>4. ASSUME x \in DOMAIN main, main' = Erase(main, x), UNCHANGED <<frames, statics>>,
             InCall => Linked(Here)[x] = "global" /\ Lookup(main, x) # Undef
      PROVE  Refines
  <2>1. PICK m : m = Erase(main, x)
    OBVIOUS
  <2>2. m # Empty
    BY <1>1, <1>4, <2>1, Erased
  <2>3. AllLocal(m)
    BY <1>1, <1>4, <2>1, EraseLocal
  <2>4. Seen(m) = Written(Seen(main), x, Undef)
    BY <1>1, <1>4, <2>1, SeenErased DEF Written
  <2>5. PlainTrees'
    BY <1>0, <1>1, <1>4, <2>1, <2>2, <2>3, PageKept
  <2>6. S!Next
    BY <1>0, <1>3, <1>4, <2>1, <2>4, PageWritten
  <2>7. QED
    BY <2>5, <2>6 DEF Refines
<1>5. CASE ~InCall
  <2>1. Where(x) = "here"
    BY <1>5 DEF Where, InTree
  <2>2. x \in DOMAIN main
    BY <1>0, <1>1, <1>2, <1>5, <2>1, Found
  <2>3. PutHere(Erase(Here, x)) /\ UNCHANGED statics
    BY <2>1 DEF UnSet
  <2>4. main' = Erase(main, x) /\ UNCHANGED frames
    BY <1>2, <1>5, <2>3 DEF PutHere, InTree
  <2>5. QED
    BY <1>4, <1>5, <2>2, <2>3, <2>4
<1>6. CASE InCall /\ Where(x) = "main"
  <2>1. x \in DOMAIN main
    BY <1>0, <1>1, <1>6, Found
  <2>2. main' = Erase(main, x) /\ UNCHANGED <<frames, statics>>
    BY <1>6 DEF UnSet
  <2>3. Linked(Here)[x] = "global"
    BY <1>6 DEF Where, Lookup, Linked
  <2>4. Lookup(main, x) # Undef
    BY <1>0, <1>6 DEF GetVar
  <2>5. QED
    BY <1>4, <2>1, <2>2, <2>3, <2>4
<1>7. CASE InCall /\ Where(x) = "static"
  <2>1. curFunc \in Funcs /\ x \in DOMAIN statics[curFunc]
    BY <1>0, <1>1, <1>7, Found
  <2>2. PICK t : t = Erase(statics[curFunc], x)
    OBVIOUS
  <2>3. statics' = [statics EXCEPT ![curFunc] = t] /\ UNCHANGED <<frames, main>>
    BY <1>7, <2>2 DEF UnSet
  <2>4. AllLocal(t)
    BY <1>1, <2>1, <2>2, EraseLocal
  <2>5. Seen(t) = Written(Seen(statics[curFunc]), x, Undef)
    BY <1>1, <2>1, <2>2, SeenErased DEF Written
  <2>6. Linked(Here)[x] = "static"
    BY <1>7 DEF Where, Lookup, Linked
  <2>7. PlainTrees'
    BY <1>0, <1>1, <1>7, <2>3, <2>4, StaticKept
  <2>8. S!Next
    BY <1>0, <1>3, <1>7, <2>3, <2>5, <2>6, StaticWritten
  <2>9. QED
    BY <2>7, <2>8 DEF Refines
<1>8. CASE InCall /\ Where(x) = "here"
  <2>1. x \in DOMAIN Here /\ Lookup(Here, x) # Undef
    BY <1>0, <1>1, <1>8, Found DEF GetVar
  <2>2. Loc(Here, x)
    <3>1. Here[x] \in Variable
      BY <1>1, <2>1, TreeParts
    <3>2. InTree
      BY <1>1, <1>8 DEF InTree
    <3>3. Here[x].scope # "global" /\ Here[x].scope # "static"
      BY <1>8, <2>1, <3>2 DEF Where
    <3>4. QED
      BY <3>1, <3>3, VariableParts DEF Loc
  <2>3. PICK t : t = Erase(Here, x)
    OBVIOUS
  <2>4. PutHere(Erase(Here, x)) /\ UNCHANGED statics
    BY <1>8 DEF UnSet
  <2>5. frames' = [frames EXCEPT ![Len(frames)] = t] /\ UNCHANGED main
    BY <1>1, <1>8, <2>3, <2>4 DEF PutHere, InTree
  <2>6. Linked(t) = Linked(Here) /\ Own(t) = Written(Own(Here), x, Undef)
    BY <1>1, <2>1, <2>2, <2>3, LocalErased DEF Written
  <2>7. Linked(Here)[x] = "local"
    BY <2>2 DEF Loc, Linked
  <2>8. PlainTrees'
    BY <1>0, <1>1, <1>8, <2>4, <2>5, FrameKept
  <2>9. S!Next
    BY <1>0, <1>3, <1>8, <2>4, <2>5, <2>6, <2>7, OwnWritten
  <2>10. QED
    BY <2>8, <2>9 DEF Refines
<1>9. QED
  BY <1>0, <1>1, <1>5, <1>6, <1>7, <1>8, Found

(* Nothing that Scopes speaks of changes.                                  *)
LEMMA Stutters ==
  ASSUME UNCHANGED <<main, statics, frames>>, frames = <<>> \/ UNCHANGED ctx
  PROVE  UNCHANGED S!vars
<1>1. PageSeen' = PageSeen /\ StaticsSeen' = StaticsSeen
  BY DEF PageSeen, StaticsSeen
<1>2. CallsSeen' = CallsSeen
  <2>1. CASE UNCHANGED ctx
    BY <2>1, SameCallsSeen
  <2>2. CASE frames = <<>>
    <3>1. DOMAIN frames = {} /\ DOMAIN frames' = {}
      BY <2>2
    <3>2. CallsSeen = [i \in {} |-> CallSeen(i)] /\ CallsSeen' = [i \in {} |-> CallSeen(i)']
      BY <3>1 DEF CallsSeen
    <3>3. QED
      BY <3>2
  <2>3. QED
    BY <2>1, <2>2
<1>3. QED
  BY <1>1, <1>2 DEF S!vars

LEMMA GlobalRefines ==
  ASSUME PlainOK, Plain, NEW x \in Names, Global(x)
  PROVE  Refines
<1>0. UNCHANGED <<reader, ctx>> /\ UNCHANGED ctx /\ ~Declared(x, "static")
  BY DEF Global
<1>1. /\ main \in Tree /\ Here \in Tree /\ statics \in [Funcs -> Tree]
      /\ AllLocal(main) /\ (\A f \in Funcs : AllLocal(statics[f])) /\ ~inMain
  BY PlainParts
<1>2. 0 \in Vals
  BY CallsAssumption
<1>3. CASE ~(InCall /\ GetVar(x) = Undef)
  <2>1. UNCHANGED trees
    BY <1>3 DEF Global
  <2>2. PlainTrees'
    BY <1>0, <1>1, <2>1, PageKept DEF trees
  <2>3. UNCHANGED S!vars
    BY <1>0, <2>1, Stutters DEF trees
  <2>4. QED
    BY <2>2, <2>3 DEF Refines
<1>4. CASE InCall /\ GetVar(x) = Undef
  <2>1. PICK t : t = Assign(Here, x, 0, "global")
    OBVIOUS
  <2>2. PutHere(t) /\ UNCHANGED <<inMain, statics, crashed>>
    BY <1>4, <2>1 DEF Global
  <2>3. frames' = [frames EXCEPT ![Len(frames)] = t] /\ UNCHANGED main
    BY <1>1, <1>4, <2>2 DEF PutHere, InTree
  <2>4. PlainTrees'
    BY <1>0, <1>1, <1>4, <2>2, <2>3, FrameKept
  <2>5. CASE x \notin DOMAIN Here
    <3>1. /\ Linked(Here)[x] = "local" /\ Own(Here)[x] = Undef
          /\ Linked(t) = Written(Linked(Here), x, "global") /\ Own(t) = Own(Here)
      BY <1>1, <1>2, <2>1, <2>5, LinkMade DEF Written
    <3>2. S!Declare(x, "global")
      BY <1>0, <1>4, <2>3, <3>1, LinkWritten
    <3>3. PageSeen' = PageSeen /\ StaticsSeen' = StaticsSeen
      BY <2>2, <2>3 DEF PageSeen, StaticsSeen
    <3>4. PageSeen[x] # Undef
      BY <1>4 DEF Global, HasGlobal, Plain, PageSeen, Seen
    <3>5. S!Global(x)
      BY <3>2, <3>3, <3>4 DEF S!Global
    <3>6. S!Next
      BY <3>5 DEF S!Next
    <3>7. QED
      BY <2>4, <3>6 DEF Refines
  <2>6. CASE x \in DOMAIN Here /\ Loc(Here, x)
    <3>1. Linked(t) = Linked(Here) /\ Own(t) = Written(Own(Here), x, 0)
      BY <1>1, <1>2, <2>1, <2>6, LocalAssigned DEF Written
    <3>2. Linked(Here)[x] = "local"
      BY <2>6 DEF Loc, Linked
    <3>3. S!Next
      BY <1>0, <1>2, <1>4, <2>2, <2>3, <3>1, <3>2, OwnWritten
    <3>4. QED
      BY <2>4, <3>3 DEF Refines
  <2>7. CASE ~Loc(Here, x)
    <3>1. Linked(t) = Linked(Here) /\ Own(t) = Own(Here)
      BY <1>1, <1>2, <2>1, <2>7, LinkAssigned
    <3>2. UNCHANGED S!vars
      BY <1>0, <1>4, <2>2, <2>3, <3>1, HiddenWritten
    <3>3. QED
      BY <2>4, <3>2 DEF Refines
  <2>8. QED
    BY <2>5, <2>6, <2>7
<1>5. QED
  BY <1>3, <1>4

LEMMA StaticVarRefines ==
  ASSUME PlainOK, Plain, NEW x \in Names, NEW v \in Vals, StaticVar(x, v)
  PROVE  Refines
<1>0. UNCHANGED <<reader, ctx>> /\ UNCHANGED ctx /\ InCall
  BY DEF StaticVar, Plain
<1>1. /\ main \in Tree /\ Here \in Tree /\ statics \in [Funcs -> Tree]
      /\ AllLocal(main) /\ (\A f \in Funcs : AllLocal(statics[f])) /\ ~inMain
  BY PlainParts
<1>2. PICK t : t = Assign(Here, x, v, "static")
  OBVIOUS
<1>3. PutHere(t) /\ ~inMain'
  BY <1>0, <1>1, <1>2 DEF StaticVar, BackToFrame
<1>4. frames' = [frames EXCEPT ![Len(frames)] = t] /\ UNCHANGED main
  BY <1>0, <1>1, <1>3 DEF PutHere, InTree
<1>5. CASE x \notin DOMAIN Here
  <2>1. curFunc \in Funcs /\ curFunc # None
    BY <1>0, InACall, CallsAssumption
  <2>2. /\ Linked(Here)[x] = "local" /\ Own(Here)[x] = Undef
        /\ Linked(t) = Written(Linked(Here), x, "static") /\ Own(t) = Own(Here)
    BY <1>1, <1>2, <1>5, LinkMade DEF Written
  <2>3. S!Declare(x, "static") /\ S!Mine.fn = curFunc
    BY <1>0, <1>4, <2>2, LinkWritten
  <2>4. Lookup(Static(curFunc), x) = Seen(statics[curFunc])[x]
    BY <2>1 DEF Static, Seen
  <2>5. IF Lookup(Static(curFunc), x) = Undef THEN PutStatic(x, v) ELSE UNCHANGED statics
    BY <1>0, <1>5 DEF StaticVar
  <2>6. CASE Seen(statics[curFunc])[x] = Undef
    <3>1. PICK u : u = Assign(statics[curFunc], x, v, "local")
      OBVIOUS
    <3>2. statics' = [statics EXCEPT ![curFunc] = u]
      BY <2>1, <2>4, <2>5, <2>6, <3>1 DEF PutStatic
    <3>3. AllLocal(u)
      BY <1>1, <2>1, <3>1, AssignLocal
    <3>4. Seen(u) = Written(Seen(statics[curFunc]), x, v)
      BY <1>1, <2>1, <3>1, SeenAssigned DEF Written
    <3>5. S!Next
      BY <1>0, <1>4, <2>3, <2>6, <3>2, <3>4, StaticFirst
    <3>6. \A f \in Funcs : AllLocal(statics'[f])
      BY <1>1, <2>1, <3>2, <3>3
    <3>7. PlainTrees'
      BY <1>0, <1>3, <1>4, <3>6, FrameKept
    <3>8. QED
      BY <3>5, <3>7 DEF Refines
  <2>7. CASE Seen(statics[curFunc])[x] # Undef
    <3>1. UNCHANGED statics
      BY <2>4, <2>5, <2>7
    <3>2. S!Next
      BY <1>0, <1>4, <2>3, <2>7, <3>1, StaticAgain
    <3>3. PlainTrees'
      BY <1>0, <1>1, <1>3, <1>4, <3>1, FrameKept
    <3>4. QED
      BY <3>2, <3>3 DEF Refines
  <2>8. QED
    BY <2>6, <2>7
<1>6. CASE x \in DOMAIN Here
  <2>1. UNCHANGED statics
    BY <1>6 DEF StaticVar
  <2>2. PlainTrees'
    BY <1>0, <1>1, <1>3, <1>4, <2>1, FrameKept
  <2>3. CASE Loc(Here, x)
    <3>1. Linked(t) = Linked(Here) /\ Own(t) = Written(Own(Here), x, v)
      BY <1>1, <1>2, <1>6, <2>3, LocalAssigned DEF Written
    <3>2. Linked(Here)[x] = "local"
      BY <2>3 DEF Loc, Linked
    <3>3. S!Next
      BY <1>0, <1>4, <2>1, <3>1, <3>2, OwnWritten
    <3>4. QED
      BY <2>2, <3>3 DEF Refines
  <2>4. CASE ~Loc(Here, x)
    <3>1. Linked(t) = Linked(Here) /\ Own(t) = Own(Here)
      BY <1>1, <1>2, <2>4, LinkAssigned
    <3>2. UNCHANGED S!vars
      BY <1>0, <1>4, <2>1, <3>1, HiddenWritten
    <3>3. QED
      BY <2>2, <3>2 DEF Refines
  <2>5. QED
    BY <2>3, <2>4
<1>7. QED
  BY <1>5, <1>6
(* Only the text of the page begins and ends anything but calls.           *)
LEMMA TextRefines ==
  ASSUME PlainOK, Plain, NEW kind \in {"file", "eval"}, Read(kind, None, Depth), UNCHANGED trees
  PROVE  Refines
<1>1. MayRead(kind) /\ ctx' = Append(ctx, [kind |-> kind, fn |-> None])
  BY DEF Read
<1>2. Top.kind = "file"
  BY <1>1, PlainRead DEF PlainOK
<1>3. frames \in Seq(Tree) /\ Len(frames) = 0
  BY <1>2 DEF PlainOK, PlainTrees, FramesOK, TypesInv, TreesOK
<1>4. frames = <<>>
  BY <1>3, EmptySeq
<1>5. UNCHANGED S!vars
  BY <1>4, Stutters DEF trees
<1>6. Top'.kind # "call"
  <2>1. PICK text : text = [kind |-> kind, fn |-> None]
    OBVIOUS
  <2>2. text \in Text /\ text.kind # "call"
    BY <2>1 DEF Text, Kinds
  <2>3. ctx \in Seq(Text)
    BY DEF PlainOK, TypesInv, ReaderTypes
  <2>4. /\ ctx' \in Seq(Text) /\ Len(ctx') = Len(ctx) + 1 /\ ctx'[Len(ctx) + 1] = text
    BY <1>1, <2>1, <2>2, <2>3, Pushed
  <2>5. Top' = ctx'[Len(ctx')]
    BY DEF Top, Last
  <2>6. QED
    BY <2>2, <2>4, <2>5
<1>7. FramesOK'
  BY <1>3, <1>6 DEF PlainOK, PlainTrees, FramesOK, trees
<1>8. PlainTrees'
  BY <1>7 DEF PlainOK, PlainTrees, trees
<1>9. QED
  BY <1>5, <1>8 DEF Refines

LEMMA IncludeFailsRefines ==
  ASSUME PlainOK, Plain, IncludeFails
  PROVE  Refines
<1>1. fileSize' = fileSize /\ UNCHANGED trees /\ UNCHANGED ctx
  BY DEF IncludeFails, Plain
<1>2. UNCHANGED S!vars
  BY <1>1, Stutters DEF trees
<1>3. PlainTrees'
  BY <1>1 DEF PlainOK, PlainTrees, FramesOK, trees, Top
<1>4. QED
  BY <1>2, <1>3 DEF Refines

LEMMA CallRefines ==
  ASSUME PlainOK, Plain, NEW f \in Funcs, NEW D \in SUBSET Names, NEW args \in [D -> Vals], Call(f, args)
  PROVE  Refines
<1>1. S!Next
  BY CallBegins
<1>2. PICK t, n : t = [m \in DOMAIN args |-> Var(args[m], "local")] /\ n = Len(frames)
  OBVIOUS
<1>3. /\ MayRead("call") /\ ctx' = Append(ctx, [kind |-> "call", fn |-> f])
      /\ Here # Empty /\ frames' = Append(frames, t) /\ inMain' = FALSE
      /\ UNCHANGED <<fileSize, main, statics>>
  BY <1>2 DEF Call, Read, Plain
<1>4. t \in Tree
  BY <1>2, ArgumentsTree
<1>5. frames \in Seq(Tree) /\ n \in Nat
  BY <1>2, LenProperties DEF PlainOK, TypesInv, TreesOK
<1>6. Len(frames') = n + 1 /\ \A i \in 1..n : frames'[i] = frames[i]
  BY <1>2, <1>3, <1>4, <1>5, Pushed
<1>7. main # Empty
  BY <1>3, InACall
<1>8. \A i \in 1..n : frames[i] # Empty
  <2>1. \A i \in 1..n - 1 : frames[i] # Empty
    BY <1>2 DEF PlainOK, PlainTrees, FramesOK
  <2>2. n > 0 => frames[n] # Empty
    BY <1>2, <1>3, InACall
  <2>3. QED
    BY <1>5, <2>1, <2>2
<1>9. Top'.kind = "call" /\ Len(ctx') = Len(ctx) + 1
  <2>1. PICK text : text = [kind |-> "call", fn |-> f]
    OBVIOUS
  <2>2. text \in Text /\ text.kind = "call"
    BY <2>1 DEF Text, Kinds
  <2>3. ctx \in Seq(Text)
    BY DEF PlainOK, TypesInv, ReaderTypes
  <2>4. Len(ctx') = Len(ctx) + 1 /\ ctx'[Len(ctx) + 1] = text
    BY <1>3, <2>1, <2>2, <2>3, Pushed
  <2>5. Top' = ctx'[Len(ctx')]
    BY DEF Top, Last
  <2>6. QED
    BY <2>2, <2>4, <2>5
<1>10. n = Len(ctx) - fileSize
  <2>1. /\ Top.kind = "file" \/ Top.kind = "call"
        /\ Top.kind = "file" => fileSize = Len(ctx)
    BY <1>3, PlainRead DEF PlainOK
  <2>2. n = IF Top.kind = "call" THEN Len(ctx) - fileSize ELSE 0
    BY <1>2 DEF PlainOK, PlainTrees, FramesOK
  <2>3. Len(ctx) \in Nat
    BY TopOfCtx DEF PlainOK, ReadOK
  <2>4. QED
    BY <2>1, <2>2, <2>3
<1>11. FramesOK'
  <2>1. Len(ctx) \in Nat /\ fileSize \in Int
    BY TopOfCtx DEF PlainOK, ReadOK, ShapeOK
  <2>2. Len(frames') = Len(ctx') - fileSize'
    BY <1>3, <1>6, <1>9, <1>10, <2>1
  <2>3. \A i \in 1..Len(frames') - 1 : frames'[i] # Empty
    BY <1>5, <1>6, <1>8
  <2>4. QED
    BY <1>3, <1>7, <1>9, <2>2, <2>3 DEF FramesOK
<1>12. PlainTrees'
  BY <1>3, <1>11 DEF PlainOK, PlainTrees
<1>13. QED
  BY <1>1, <1>12 DEF Refines

LEMMA EndRefines ==
  ASSUME PlainOK, Plain, ReadOK', End
  PROVE  Refines
<1>0. PICK d, n : d = Len(ctx) /\ n = Len(frames)
  OBVIOUS
<1>1. /\ ctx' = Front(ctx) /\ files # <<>>
      /\ IF Unwinds THEN PopStackFrame ELSE UNCHANGED <<frames, inMain>>
      /\ UNCHANGED <<main, statics>>
  BY DEF End
<1>2. /\ ctx \in Seq(Text) /\ ctx # <<>> /\ frames \in Seq(Tree) /\ n \in Nat
      /\ files \in Seq(Saved) /\ Len(files) = d - 1
  BY <1>0, LenProperties DEF PlainOK, TypesInv, TreesOK, ReadOK, CtxOK, FilesOK
<1>3. d \in Nat /\ d > 1
  <2>1. d \in Nat \ {0} /\ Len(files) \in Nat \ {0}
    BY <1>0, <1>1, <1>2, EmptySeq, LenProperties
  <2>2. QED
    BY <1>2, <2>1
<1>4. Len(ctx') = d - 1 /\ \A i \in 1..d - 1 : ctx'[i] = ctx[i]
  BY <1>0, <1>1, <1>2, Popped
<1>5. Top = ctx[d] /\ Top' = ctx[d - 1] /\ Top \in Text
  <2>1. Top = ctx[d] /\ Top \in Text
    BY <1>0, TopOfCtx DEF PlainOK, ReadOK
  <2>2. Top' = ctx'[Len(ctx')]
    BY DEF Top, Last
  <2>3. QED
    BY <1>3, <1>4, <2>1, <2>2
<1>6. /\ fileSize \in 1..d
      /\ \A i \in 1..d : (ctx[i].kind = "file") <=> (i <= fileSize)
      /\ \A i \in 1..d : ctx[i].kind = "eval" => i = d /\ i = fileSize + 1
  BY <1>0 DEF PlainOK, ReadOK, ShapeOK
<1>7. /\ fileSize' \in 1..d - 1
      /\ \A i \in 1..d - 1 : (ctx'[i].kind = "file") <=> (i <= fileSize')
  BY <1>4 DEF ReadOK, ShapeOK
<1>8. curFunc = Top.fn /\ ((Top.kind = "call") <=> (Top.fn # None))
  BY <1>0, <1>3, <1>5 DEF PlainOK, ReadOK, ReaderOK, CtxOK
<1>9. n = IF Top.kind = "call" THEN d - fileSize ELSE 0
  BY <1>0 DEF PlainOK, PlainTrees, FramesOK
<1>10. /\ ~inMain /\ AllLocal(main) /\ (\A f \in Funcs : AllLocal(statics[f]))
       /\ \A i \in 1..n - 1 : frames[i] # Empty
       /\ frames # <<>> => main # Empty
  BY <1>0 DEF PlainOK, PlainTrees, FramesOK
<1>11. CASE Top.kind # "call"
  <2>1. ~Unwinds
    BY <1>8, <1>11 DEF Unwinds
  <2>2. frames = <<>> /\ n = 0
    BY <1>0, <1>2, <1>9, <1>11, EmptySeq
  <2>3. UNCHANGED <<frames, inMain>>
    BY <1>1, <2>1
  <2>4. UNCHANGED S!vars
    BY <1>1, <2>2, <2>3, Stutters
  <2>5. Top.kind = "file" \/ Top.kind = "eval"
    BY <1>5, <1>11 DEF Text, Kinds
  <2>6. d - 1 <= fileSize
    BY <1>3, <1>5, <1>6, <2>5
  <2>7. Top'.kind # "call"
    BY <1>3, <1>5, <1>6, <2>6
  <2>8. FramesOK'
    BY <1>0, <1>1, <1>10, <2>2, <2>3, <2>7 DEF FramesOK
  <2>9. PlainTrees'
    BY <1>1, <1>10, <2>8 DEF PlainTrees
  <2>10. QED
    BY <2>4, <2>9 DEF Refines
<1>12. CASE Top.kind = "call"
  <2>1. PopStackFrame
    BY <1>1, <1>8, <1>12 DEF Unwinds
  <2>2. fileSize <= d - 1 /\ n > 0 /\ frames # <<>>
    <3>1. ~(d <= fileSize)
      BY <1>3, <1>5, <1>6, <1>12
    <3>2. fileSize <= d - 1 /\ n > 0
      BY <1>3, <1>6, <1>9, <1>12, <3>1
    <3>3. QED
      BY <1>0, <3>2
  <2>3. /\ frames' = Front(frames) /\ frames' \in Seq(Tree) /\ Len(frames') = n - 1
        /\ \A i \in 1..n - 1 : frames'[i] = frames[i]
    BY <1>0, <1>2, <2>1, <2>2, Popped DEF PopStackFrame
  <2>4. S!Next
    BY <1>1, <2>2, <2>3, CallEnds DEF InCall
  <2>5. ~inMain'
    <3>1. inMain' = (Len(frames) > 1 /\ Last(Front(frames)) = Empty /\ main # Empty)
      BY <2>1 DEF PopStackFrame
    <3>2. n > 1 => Last(Front(frames)) # Empty
      <4>1. Last(Front(frames)) = frames'[Len(frames')]
        BY <2>3 DEF Last
      <4>2. n > 1 => n - 1 \in 1..n - 1
        BY <1>2
      <4>3. QED
        BY <1>10, <2>3, <4>1, <4>2
    <3>3. QED
      BY <1>0, <3>1, <3>2
  <2>6. fileSize' = fileSize
    <3>1. fileSize \in 1..d - 1 /\ fileSize' \in 1..d
      BY <1>3, <1>6, <1>7, <2>2
    <3>2. ctx'[fileSize].kind = "file" /\ ctx'[fileSize'].kind = "file"
      BY <1>4, <1>6, <1>7, <3>1
    <3>3. fileSize <= fileSize'
      BY <1>7, <3>1, <3>2
    <3>4. fileSize' <= fileSize
      BY <1>4, <1>6, <1>7, <3>1, <3>2
    <3>5. QED
      BY <3>1, <3>3, <3>4
  <2>7. Len(frames') = IF Top'.kind = "call" THEN Len(ctx') - fileSize' ELSE 0
    <3>1. n = d - fileSize
      BY <1>9, <1>12
    <3>2. CASE Top'.kind = "call"
      BY <1>3, <1>4, <1>6, <2>3, <2>6, <3>1, <3>2
    <3>3. CASE Top'.kind # "call"
      <4>1. d - 1 \in 1..d /\ ctx[d - 1] \in Text
        BY <1>0, <1>2, <1>3, ElementOfSeq
      <4>2. ctx[d - 1].kind # "eval"
        BY <1>3, <1>6, <4>1
      <4>3. ctx[d - 1].kind = "file"
        BY <1>5, <3>3, <4>1, <4>2 DEF Text, Kinds
      <4>4. d - 1 <= fileSize
        BY <1>6, <4>1, <4>3
      <4>5. n = 1
        BY <1>3, <1>6, <2>2, <3>1, <4>4
      <4>6. QED
        BY <2>3, <3>3, <4>5
    <3>4. QED
      BY <3>2, <3>3
  <2>8. \A i \in 1..Len(frames') - 1 : frames'[i] # Empty
    <3> TAKE i \in 1..Len(frames') - 1
    <3>1. i \in 1..n - 1
      BY <1>2, <2>3
    <3>2. QED
      BY <1>10, <2>3, <3>1
  <2>9. FramesOK'
    BY <1>1, <1>10, <2>2, <2>5, <2>7, <2>8 DEF FramesOK
  <2>10. PlainTrees'
    BY <1>1, <1>10, <2>9 DEF PlainTrees
  <2>11. QED
    BY <2>4, <2>10 DEF Refines
<1>13. QED
  BY <1>11, <1>12

LEMMA RefinesStep ==
  ASSUME PlainOK, Plain, ReadOK', [Next]_vars
  PROVE  Refines
<1>1. ASSUME NEW x \in Names, NEW v \in Vals, Set(x, v) PROVE Refines
  BY <1>1, SetRefines
<1>2. ASSUME NEW x \in Names, UnSet(x) PROVE Refines
  BY <1>2, UnSetRefines
<1>3. ASSUME NEW x \in Names, Global(x) PROVE Refines
  BY <1>3, GlobalRefines
<1>4. ASSUME NEW x \in Names, NEW v \in Vals, StaticVar(x, v) PROVE Refines
  BY <1>4, StaticVarRefines
<1>5. CASE Include
  <2>1. Read("file", None, Depth) /\ UNCHANGED trees
    BY <1>5 DEF Include
  <2>2. QED
    BY <2>1, TextRefines
<1>6. CASE IncludeFails
  BY <1>6, IncludeFailsRefines
<1>7. CASE Eval
  <2>1. Read("eval", None, Depth) /\ UNCHANGED trees
    BY <1>7 DEF Eval
  <2>2. QED
    BY <2>1, TextRefines
<1>8. ASSUME NEW f \in Funcs, NEW D \in SUBSET Names, NEW args \in [D -> Vals], Call(f, args)
      PROVE  Refines
  BY <1>8, CallRefines
<1>9. CASE End
  BY <1>9, EndRefines
<1>10. CASE UNCHANGED vars
  <2>1. UNCHANGED <<reader, ctx, frames, statics>> /\ UNCHANGED <<main, inMain, statics, frames, ctx>>
    BY <1>10 DEF vars, page, trees
  <2>2. ~inMain /\ AllLocal(main)
    BY PlainParts
  <2>3. PlainTrees'
    BY <2>1, <2>2, PageKept
  <2>4. UNCHANGED S!vars
    BY <2>1, Stutters
  <2>5. QED
    BY <2>3, <2>4 DEF Refines
<1>11. QED
  BY <1>1, <1>2, <1>3, <1>4, <1>5, <1>6, <1>7, <1>8, <1>9, <1>10 DEF Next

LEMMA PlainInit ==
  ASSUME Init
  PROVE  PlainInv /\ S!Init
<1>1. /\ frames = <<>> /\ main = Empty /\ inMain = FALSE /\ fileSize = 1
      /\ statics = [f \in Funcs |-> Empty] /\ ctx = <<[kind |-> "file", fn |-> None]>>
  BY DEF Init
<1>2. AllLocal(Empty) /\ Seen(Empty) = [n \in Names |-> Undef]
  BY EmptyTree DEF AllLocal, Seen, Lookup
<1>3. PlainTrees
  <2>1. Top.kind # "call"
    <3>1. PICK text : text = [kind |-> "file", fn |-> None]
      OBVIOUS
    <3>2. ctx = <<text>> /\ text.kind # "call"
      BY <1>1, <3>1
    <3>3. Len(ctx) = 1 /\ ctx[1] = text
      BY <3>2
    <3>4. QED
      BY <3>2, <3>3 DEF Top, Last
  <2>2. Len(frames) = 0
    BY <1>1
  <2>3. FramesOK
    BY <1>1, <2>1, <2>2 DEF FramesOK
  <2>4. QED
    BY <1>1, <1>2, <2>3 DEF PlainTrees
<1>4. PlainInv
  BY <1>3, TypesInit, ReadInit DEF PlainInv
<1>5. S!Init
  <2>1. PageSeen = S!Unset
    BY <1>1, <1>2 DEF PageSeen, S!Unset
  <2>2. StaticsSeen = [f \in Funcs |-> S!Unset]
    BY <1>1, <1>2 DEF StaticsSeen, S!Unset
  <2>3. CallsSeen = <<>>
    BY <1>1 DEF CallsSeen
  <2>4. QED
    BY <2>1, <2>2, <2>3 DEF S!Init
<1>6. QED
  BY <1>4, <1>5

LEMMA PlainStep ==
  ASSUME PlainInv, [Next]_vars
  PROVE  PlainInv' /\ [Plain => S!Next]_(S!vars)
<1>1. UNCHANGED habits
  BY DEF Next, vars, page, Runs, Set, UnSet, Global, StaticVar, Include, IncludeFails, Eval, Call, End
<1>2. TypesInv' /\ ReadInv'
  BY TypesStep, ReadStep DEF PlainInv
<1>3. Plain' <=> Plain
  BY <1>1 DEF Plain
<1>4. CASE ~Plain
  BY <1>2, <1>3, <1>4 DEF PlainInv
<1>5. CASE Plain
  <2>1. PlainOK /\ ReadOK'
    BY <1>2, <1>3, <1>5 DEF PlainInv, PlainOK, ReadInv
  <2>2. Refines
    BY <1>5, <2>1, RefinesStep
  <2>3. QED
    BY <1>2, <1>5, <2>2 DEF PlainInv, Refines
<1>6. QED
  BY <1>4, <1>5

(* On plain pages, for any names, values, functions and depth, the trees,  *)
(* their marked entries and the switching of var_top between them do what  *)
(* the manual says of local, global and static variables (SetVar, GetVar,  *)
(* UnSet, Global, PushStackFrame, PopStackFrame).                          *)
THEOREM CallsImplements == Spec => Implements
<1>1. Init => PlainInv /\ S!Init
  BY PlainInit
<1>2. PlainInv /\ [Next]_vars => PlainInv' /\ [Plain => S!Next]_(S!vars)
  BY PlainStep
<1>3. QED
  BY <1>1, <1>2, PTL DEF Spec, Implements
=============================================================================
