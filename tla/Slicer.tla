------------------------------- MODULE Slicer -------------------------------
(***************************************************************************)
(* slice_file_iter (slicer/mod.rs): a file with an extension of the AST     *)
(* track is read whole and split at blank lines (slicer/ast.rs); any other, *)
(* and one that is unreadable, not UTF-8 or shorter than start_offset, goes *)
(* to the iterator of FastCdc.                                              *)
(*                                                                         *)
(* A text is a sequence of lines: their length, whether trim() leaves       *)
(* nothing of them, and the bytes of their terminator ("\n" or "\r\n").     *)
(***************************************************************************)
EXTENDS FastCdc

CONSTANTS
  MaxLines,   \* bound: lines of a text
  MaxLine     \* bound: bytes of a line, its terminator aside

ASSUME LinesAssumption == MaxLines \in Nat /\ MaxLine \in Nat

VARIABLES
  text,    \* the lines from start_offset on; <<>> on the CDC track
  line,    \* lines looked at
  begin,   \* current_start
  paras    \* the chunks of the AST track

textVars == <<text, line, begin, paras>>

Lines == {l \in [len : 0 .. MaxLine, blank : BOOLEAN, nl : 1 .. 2] : l.len = 0 => l.blank}
LastLines == Lines \cup [len : 1 .. MaxLine, blank : BOOLEAN, nl : {0}]
Texts == {Append(t, l) : t \in UNION {[1 .. n -> Lines] : n \in 0 .. MaxLines - 1},
                         l \in LastLines}

(* lines() strips the terminator, and each line is counted as one longer;   *)
(* Bytes is what the lines are in the file.                                 *)
Counted[i \in 0 .. MaxLines] == IF i = 0 THEN 0 ELSE Counted[i - 1] + text[i].len + 1
Bytes[i \in 0 .. MaxLines]   == IF i = 0 THEN 0 ELSE Bytes[i - 1] + text[i].len + text[i].nl
Size == Bytes[Len(text)]

(* The AST track makes no iterator, which is one that is done.  The text is *)
(* what follows start_offset, wherever that is.                             *)
AstInit ==
  /\ text \in Texts
  /\ from \in Offsets /\ end = 0 /\ content = <<>>
  /\ cursor = from /\ base = from /\ eof = TRUE
  /\ buf = [i \in Indices |-> NoByte] /\ len = 0 /\ start = 0
  /\ failed = FALSE /\ pc = "done" /\ out = <<>>

SliceInit ==
  /\ (Init /\ text = <<>>) \/ AstInit
  /\ line = 0 /\ begin = 0 /\ paras = <<>>

----------------------------------------------------------------------------
(* extract_ast_boundaries.                                                  *)

(* current_start counts bytes and is compared with the index of the line.   *)
Splits == line > 0 /\ text[line + 1].blank /\ begin < line - 1

Paragraph(stop) == [offset |-> from + begin, length |-> stop - begin]

(* Mutant: the blank line is left out.                                      *)
SplitPastBlank ==
  /\ line < Len(text) /\ Splits
  /\ paras' = Append(paras, Paragraph(Counted[line]))
  /\ begin' = Counted[line + 1]
  /\ line' = line + 1
  /\ UNCHANGED <<vars, text>>

SplitParagraph ==
  /\ line < Len(text) /\ Splits
  /\ LET stop == IF Counted[line] < Size THEN Counted[line] ELSE Size IN
       paras' = IF begin < stop THEN Append(paras, Paragraph(stop)) ELSE paras
  /\ begin' = Counted[line]
  /\ line' = line + 1
  /\ UNCHANGED <<vars, text>>

NextLine ==
  /\ line < Len(text) /\ ~Splits
  /\ line' = line + 1
  /\ UNCHANGED <<vars, text, begin, paras>>

(* What is left after the last line.                                        *)
LastParagraph ==
  /\ text # <<>> /\ line = Len(text) /\ begin < Size
  /\ paras' = Append(paras, Paragraph(Size))
  /\ begin' = Size
  /\ UNCHANGED <<vars, text, line>>

Split == SplitParagraph \/ NextLine \/ LastParagraph

SliceNext == (Next /\ UNCHANGED textVars) \/ Split

SliceSpec == SliceInit /\ [][SliceNext]_<<vars, textVars>> /\ WF_vars(Next)

----------------------------------------------------------------------------
(* Properties.                                                              *)

(* The paragraphs, too, are the text from start_offset on without a gap or  *)
(* an overlap, although the split counts "\r\n" as one byte and so may fall *)
(* inside a line.                                                           *)
TextReassembles ==
  /\ \A k \in 1 .. Len(paras) :
       paras[k].offset = IF k = 1 THEN from
                         ELSE paras[k - 1].offset + paras[k - 1].length
  /\ line = Len(text) /\ begin = Size /\ text # <<>> =>
       paras # <<>> /\ paras[Len(paras)].offset + paras[Len(paras)].length = from + Size

(* The inductive invariant: the split has come as far as its paragraphs go. *)
ParaEnd == IF paras = <<>> THEN from
           ELSE paras[Len(paras)].offset + paras[Len(paras)].length

TextTypes ==
  /\ text \in Seq(LastLines) /\ Len(text) <= MaxLines
  /\ \A i \in 1 .. Len(text) - 1 : text[i] \in Lines
  /\ line \in 0 .. Len(text) /\ begin \in Nat
  /\ paras \in Seq([offset : Nat, length : Nat])

TextInv == TextTypes /\ TextReassembles /\ ParaEnd = from + begin

SliceInv == CdcInv /\ TextInv
=============================================================================
