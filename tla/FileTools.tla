------------------------------ MODULE FileTools ------------------------------
(***************************************************************************)
(* The file tools of an agent (internal/runtime/tool): read_file, by pages *)
(* of bytes or lines or by search, and write_file, by patches or by chunks *)
(* with the size the file must have.                                       *)
(*                                                                         *)
(* A file is a sequence of bytes: "nl" ends a line, "w1" and "w2" are the  *)
(* two of one wide character, any other byte is a character of its own.    *)
(***************************************************************************)
EXTENDS Integers, FiniteSetsExt, SequencesExt

CONSTANTS
  Files,      \* what a file may hold, for each kind of work
  Limits,     \* bytes or lines of a page, matches of a search
  Around,     \* context_lines
  Query,      \* a byte searched for
  Hunks,      \* sequences of lines, each with its mark: " ", "-" or "+"
  MaxHunks,   \* bound on the hunks of a patch
  Chunks      \* what an agent writes piece by piece

VARIABLES
  work,       \* what the agent is about: "bytes", "lines", "search", "patch", "chunks"
  found,      \* the file as it was found
  file,       \* as it is
  limit,
  at,         \* bytes, lines, hunks or chunks the agent is through with
  got,        \* what it has read; for a patch the text so far
  edit,       \* the last hunk that was applied: what it was, before and after
  state       \* "going", "done", "refused" or, of a write that failed, "broken"

vars == <<work, found, file, limit, at, got, edit, state>>

NoEdit == [hunk |-> <<>>, before |-> <<>>, after |-> <<>>]

Init ==
  /\ work \in DOMAIN Files /\ found \in Files[work] /\ file = found
  /\ limit \in Limits /\ at = 0 /\ edit = NoEdit /\ state = "going"
  /\ got = IF work = "patch" THEN found ELSE <<>>

-----------------------------------------------------------------------------
(* Reading. *)

Whole(text) == \A i \in DOMAIN text : text[i] = "w1" => i < Len(text) /\ text[i + 1] = "w2"

\* safeUTF8Slice drops the rest of a character at the start and a begun one at the end.
Slice(text) ==
  LET rest == IF text # <<>> /\ Head(text) = "w2" THEN Tail(text) ELSE text IN
  IF Whole(rest) THEN rest ELSE Front(rest)

ReadBytes ==
  LET end == Min({at + limit, Len(file)}) IN
  /\ work = "bytes" /\ state = "going"
  /\ got' = got \o Slice(SubSeq(file, at + 1, end))
  /\ at' = end
  /\ state' = IF end < Len(file) THEN "going" ELSE "done"
  /\ UNCHANGED <<work, found, file, limit, edit>>

Trimmed(text) == IF text # <<>> /\ Last(text) = "nl" THEN Front(text) ELSE text

\* The pieces of a text between its ends of line.
Split(text) ==
  LET ends == SetToSortSeq({i \in DOMAIN text : text[i] = "nl"} \cup {Len(text) + 1}, <)
      from(k) == IF k = 1 THEN 1 ELSE ends[k - 1] + 1
  IN [k \in DOMAIN ends |-> SubSeq(text, from(k), ends[k] - 1)]

\* The last end of line may be missing; for the reader an empty line alone is none.
Lines(text) == IF Trimmed(text) = <<>> THEN <<>> ELSE Split(Trimmed(text))

ReadLines ==
  LET lines == Lines(file)
      end == Min({at + limit, Len(lines)})
  IN
  /\ work = "lines" /\ state = "going"
  /\ got' = got \o SubSeq(lines, at + 1, end)
  /\ at' = end
  /\ state' = IF end < Len(lines) THEN "going" ELSE "done"
  /\ UNCHANGED <<work, found, file, limit, edit>>

\* Faulty variant: the window of a match is shown whole though another's reaches into it.
WindowAgain(i, last) == Max({1, i - Around})

\* Where the window of a match begins, behind what was written last.
WindowFrom(i, last) == Max({1, i - Around, last + 1})

\* searchTextFile: line numbers, 0 for the dots between windows; stops at the first match
\* too many.
Found(lines) ==
  LET see(seen, i) ==
        IF ~Contains(lines[i], Query) \/ seen.matches = limit THEN seen
        ELSE LET from == WindowFrom(i, seen.last)
                 to == Min({Len(lines), i + Around})
                 dots == IF seen.last > 0 /\ from > seen.last + 1 THEN <<0>> ELSE <<>>
             IN [matches |-> seen.matches + 1, last |-> Max({seen.last, to}),
                 shown |-> seen.shown \o dots \o [k \in 1..(to - from + 1) |-> from + k - 1]]
  IN FoldLeft(see, [matches |-> 0, last |-> 0, shown |-> <<>>], [i \in DOMAIN lines |-> i]).shown

Search ==
  /\ work = "search" /\ state = "going"
  /\ got' = Found(Lines(file)) /\ state' = "done"
  /\ UNCHANGED <<work, found, file, limit, at, edit>>
-----------------------------------------------------------------------------
(* Patching. *)

\* linesToFileText.
Text(lines) == FlattenSeq([i \in DOMAIN lines |-> Append(lines[i], "nl")])

\* parseCodexUpdate: context is in both.
LinesWithout(hunk, mark) ==
  LET kept == SelectSeq(hunk, LAMBDA line : line.mark # mark) IN [i \in DOMAIN kept |-> kept[i].text]
Old(hunk) == LinesWithout(hunk, "+")
New(hunk) == LinesWithout(hunk, "-")
Changes(hunk) == \E i \in DOMAIN hunk : hunk[i].mark # " "

Places(text, piece) ==
  {i \in 1..(Len(text) - Len(piece) + 1) : SubSeq(text, i, i + Len(piece) - 1) = piece}

\* Faulty variant: the first of several places is taken.
OnceOrMore(text, piece) == Places(text, piece) # {}

\* strings.Count is one: no second place behind the end of the first.
Once(text, piece) ==
  LET places == Places(text, piece) IN
  /\ places # {}
  /\ \A i \in places : i < Min(places) + Max({1, Len(piece)})

Replaced(text, old, new) ==
  LET i == Min(Places(text, old)) IN
  SubSeq(text, 1, i - 1) \o new \o SubSeq(text, i + Len(old), Len(text))

\* The hunk's place is refused if there is none or more than one; the last line of a file may
\* lack its end.
Refused == {}
Patched(text, hunk) ==
  LET old == Text(Old(hunk))
      new == Text(New(hunk))
  IN CASE Old(hunk) = <<>> -> Refused
       [] Old(hunk) = New(hunk) -> {text}
       [] Once(text, old) -> {Replaced(text, old, new)}
       [] Places(text, old) = {} /\ Once(text, Trimmed(old)) -> {Replaced(text, Trimmed(old), Trimmed(new))}
       [] OTHER -> Refused

\* applyCodexUpdate, hunk by hunk, on the text that was read.
ApplyHunk(hunk) ==
  LET after == Patched(got, hunk) IN
  /\ work = "patch" /\ state = "going" /\ at < MaxHunks /\ Changes(hunk)
  /\ IF after = Refused THEN state' = "refused" /\ UNCHANGED <<at, got, edit>>
     ELSE /\ got' = CHOOSE text \in after : TRUE
          /\ edit' = [hunk |-> hunk, before |-> got, after |-> got']
          /\ at' = at + 1 /\ UNCHANGED state
  /\ UNCHANGED <<work, found, file, limit>>

\* Then the file is cut and written anew.
WritePatched ==
  /\ work = "patch" /\ state = "going" /\ at > 0
  /\ \/ file' = got /\ state' = "done"
     \/ \E n \in 0..Len(got) : file' = SubSeq(got, 1, n) /\ state' = "broken"
  /\ UNCHANGED <<work, found, limit, at, got, edit>>
-----------------------------------------------------------------------------
(* Writing chunk by chunk. *)

Offset(n) == Len(FlattenSeq(SubSeq(Chunks, 1, n)))

\* Faulty variant: the size is not looked at.
AnySize(expected) == TRUE

\* ensureExpectedOffset; a file that is missing has no bytes.
AsExpected(expected) == Len(file) = expected

\* The chunk is appended, whole or up to an error; the agent may not get to know.
WriteChunk ==
  /\ work = "chunks" /\ at < Len(Chunks) /\ AsExpected(Offset(at))
  /\ \E n \in 0..Len(Chunks[at + 1]), told \in BOOLEAN :
       /\ file' = file \o SubSeq(Chunks[at + 1], 1, n)
       /\ at' = IF told /\ n = Len(Chunks[at + 1]) THEN at + 1 ELSE at
  /\ UNCHANGED <<work, found, limit, got, edit, state>>

\* Refused, the agent is told the size, and goes on behind the chunk if it is there; else it
\* overwrites the file with the first.
ChunkRefused ==
  /\ work = "chunks" /\ at < Len(Chunks) /\ ~AsExpected(Offset(at))
  /\ IF Len(file) = Offset(at + 1) THEN at' = at + 1 /\ UNCHANGED file
     ELSE at' = 1 /\ file' = Chunks[1]
  /\ UNCHANGED <<work, found, limit, got, edit, state>>

Next ==
  \/ ReadBytes \/ ReadLines \/ Search
  \/ WritePatched \/ \E hunk \in Hunks : ApplyHunk(hunk)
  \/ WriteChunk \/ ChunkRefused

Spec == Init /\ [][Next]_vars
-----------------------------------------------------------------------------
(* Properties. *)

\* Whether the characters before the byte are cut by the end of a page.
Cut(i) == file[i] = "w1" /\ i % limit = 0

\* Page after page, each line is read once, and each character but those two pages share.
PagesAreWhole ==
  state = "done" =>
    /\ work = "lines" => got = Lines(file)
    /\ work = "bytes" =>
         LET kept == {i \in DOMAIN file : ~Cut(i) /\ (i > 1 => ~Cut(i - 1))}
             index == SetToSortSeq(kept, <)
         IN got = [k \in DOMAIN index |-> file[index[k]]]

\* A search shows the surroundings of the first matches, in order, each line once, and dots
\* where lines are left out.
SearchIsTrue ==
  work = "search" /\ state = "done" =>
    LET lines == Lines(file)
        hits == {i \in DOMAIN lines : Contains(lines[i], Query)}
        first == {i \in hits : Cardinality({j \in hits : j < i}) < limit}
        near == {i \in DOMAIN lines : \E j \in first : i - j \in -Around..Around}
        index == SetToSortSeq(near, <)
        shown == SelectSeq(got, LAMBDA i : i # 0)
    IN /\ shown = index
       /\ \A k \in DOMAIN got : got[k] = 0 => got[k - 1] + 1 < got[k + 1]
       /\ \A k \in DOMAIN got \ {1} : got[k] # 0 /\ got[k - 1] # 0 => got[k] = got[k - 1] + 1

\* A hunk that is applied replaces its lines where they are lines of the text, if they are;
\* but a hunk for a last line that lacks its end may be applied to the end of another line.
\* Until all hunks have their place the file is as it was found.
PatchesAreTrue ==
  LET text == edit.before
      lines(t) == IF t = <<>> THEN <<>> ELSE Split(Trimmed(t))
      old == Old(edit.hunk)
      replaced(i) == SubSeq(lines(text), 1, i - 1) \o New(edit.hunk) \o SubSeq(lines(text), i + Len(old), Len(lines(text)))
      places == Places(lines(text), old)
      unended == Trimmed(text) = text /\ Places(text, Text(old)) # {}
  IN /\ places # {} /\ ~unended => \E i \in places : lines(edit.after) = replaced(i)
     /\ work = "patch" /\ state \in {"going", "refused"} => file = found

\* What is written chunk by chunk is at any time the beginning of the whole, and the whole
\* when the agent is through, whatever was written without its knowing.
ChunksAreInOrder ==
  work = "chunks" =>
    /\ IsPrefix(file, FlattenSeq(Chunks))
    /\ at = Len(Chunks) => file = FlattenSeq(Chunks)

FilesAreTrue == PagesAreWhole /\ SearchIsTrue /\ PatchesAreTrue /\ ChunksAreInOrder
=============================================================================
