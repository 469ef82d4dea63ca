------------------------------ MODULE Journal ------------------------------
(***************************************************************************)
(* The contents of a rollback journal, and what pager_playback makes of    *)
(* them.  A journal is a sequence of slots: a header takes one, and each   *)
(* page record one.  Offsets count the slots before a place.               *)
(*                                                                         *)
(* A page's content is [ver, sz].  On page 1 they are the change counter   *)
(* and the size of the database in pages that the header holds; on other   *)
(* pages ver tells the transaction that wrote the page and sz is 0.        *)
(***************************************************************************)
EXTENDS Integers, Sequences, SequencesExt

Zero == [ver |-> 0, sz |-> 0]    \* a page of zeros
Torn == [ver |-> -1, sz |-> 0]   \* a page that was written in part

ALL == -1    \* the count 0xffffffff: as many records as the file has

Header(magic, n, orig, nonce) ==
  [kind |-> "header", magic |-> magic, nRec |-> n, orig |-> orig, nonce |-> nonce]
Record(p, val, nonce) == [kind |-> "record", pgno |-> p, val |-> val, nonce |-> nonce]
ZeroSlot == [kind |-> "zero"]    \* starts with a zero byte
Garbage == [kind |-> "garbage"]

IsHeader(f, o) == o < Len(f) /\ f[o + 1].kind = "header"

\* Writing over a slot or behind the last one.
Put(f, i, s) == IF i <= Len(f) THEN [f EXCEPT ![i] = s] ELSE Append(f, s)

\* readJournalHdr: the magic number is not looked at in a header at own, where the
\* pager itself is filling one (-1 in a hot journal).
readJournalHdr(f, o, own) == IsHeader(f, o) /\ (f[o + 1].magic \/ o = own)

\* The number of records that follow a header. Its own last header has no count
\* as long as it has not been synced: the size of the file gives it.
RecordCount(f, o, own) ==
  LET n == f[o + 1].nRec IN
  IF n = ALL \/ (n = 0 /\ o = own) THEN Len(f) - (o + 1) ELSE n

\* A record that belongs to the header at o: the checksum starts with the
\* random number of its header.
Belongs(f, i, o) == i <= Len(f) /\ f[i].kind = "record" /\ f[i].nonce = f[o + 1].nonce

\* The slots that are played back, in order, from the header at offset o on;
\* the first record that is cut off or does not fit its checksum is the end.
PlaybackSlots(f, own) ==
  LET from[o \in 0 .. Len(f)] ==
        IF ~readJournalHdr(f, o, own) THEN <<>>
        ELSE LET n == RecordCount(f, o, own)
                 good == { k \in 0 .. n : \A i \in 1 .. k : Belongs(f, o + 1 + i, o) }
             IN IF n \in good
                THEN [i \in 1 .. n |-> o + 1 + i] \o from[o + 1 + n]
                ELSE [i \in 1 .. CHOOSE k \in good : k + 1 \notin good |-> o + 1 + i]
  IN from[0]

\* Database files are sequences of pages.
Resize(d, n) == [p \in 1 .. n |-> IF p <= Len(d) THEN d[p] ELSE Zero]
WritePage(d, p, val) == [Resize(d, IF p > Len(d) THEN p ELSE Len(d)) EXCEPT ![p] = val]

\* The file after the rollback of a hot journal: of the records of a page that are
\* played back the last one counts.
Recovered(f, d) ==
  LET played(p) == { i \in Range(PlaybackSlots(f, -1)) : f[i].pgno = p }
      last(p) == CHOOSE i \in played(p) : \A j \in played(p) : j <= i
  IN IF ~readJournalHdr(f, 0, -1) THEN d
     ELSE [p \in 1 .. f[1].orig |-> IF played(p) # {} THEN f[last(p)].val
                                    ELSE IF p <= Len(d) THEN d[p] ELSE Zero]

\* The database in a file: as many pages as its header says.
Image(d) == IF d = <<>> \/ d[1].sz > Len(d) THEN d ELSE SubSeq(d, 1, d[1].sz)
=============================================================================
