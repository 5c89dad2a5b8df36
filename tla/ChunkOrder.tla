----------------------------- MODULE ChunkOrder -----------------------------
(***************************************************************************)
(* The order in which a chunk's matches are sent (chunk_display_order of   *)
(* merge.rs): a merge of the partitions by timestamp, made again over what *)
(* the filter left.                                                        *)
(***************************************************************************)
EXTENDS TimelinePage, Sequences

\* Offset x is to be shown after o, in the direction of the page.
ComesAfter(x, o) == IF req.dir = Back THEN x < o ELSE x > o

\* The first of what is left of its partition.
Leads(row, rest) == \A r \in rest \ {row} : r[1] = row[1] => ComesAfter(r[2], row[2])

\* A plausible error is "a pure-timestamp sort".
ByTimestamp(row, rest) ==
    \A r \in rest \ {row} :
        \/ MergePrefers(row[1], row[2], r[1], r[2])
        \/ r[1] = row[1] /\ log[r[1]].ts[r[2]] = log[r[1]].ts[row[2]] /\ ComesAfter(r[2], row[2])

IsNextRow(row, rest) ==
    /\ Leads(row, rest)
    /\ \A r \in rest : r[1] # row[1] /\ Leads(r, rest) => MergePrefers(row[1], row[2], r[1], r[2])

ChunkDisplayOrder(rows) ==
    LET Order[rest \in SUBSET rows] ==
            IF rest = {} THEN <<>>
            ELSE LET row == CHOOSE r \in rest : IsNextRow(r, rest)
                 IN  <<row>> \o Order[rest \ {row}]
    IN  Order[rows]

\* What the chunk sends, before its Progress event.
EmitChunk == ChunkDisplayOrder(hits)

-----------------------------------------------------------------------------
\* In each partition, time goes on with the offsets of these rows.
Monotone(rows) ==
    \A r, s \in rows : r[1] = s[1] /\ r[2] < s[2] => log[r[1]].ts[r[2]] <= log[r[1]].ts[s[2]]

\* "Within one partition, offset order ALWAYS": whatever the timestamps, the
\* filter, and the chunks a page is cut into, no row of a partition is sent
\* before one that precedes it; none is lost or sent twice by the merge, and
\* where the partitions' clocks run forward the chunk is in order of time.
DisplayKeepsOrder ==
    pc = "merge" /\ MergeIsOver =>
        /\ Len(EmitChunk) = Cardinality(hits)
        /\ hits = {EmitChunk[i] : i \in 1 .. Len(EmitChunk)}
        /\ \A i, j \in 1 .. Len(EmitChunk) : i < j =>
             LET r == EmitChunk[i]
                 s == EmitChunk[j]
             IN  /\ r[1] = s[1] => ComesAfter(s[2], r[2])
                 /\ Monotone(hits) => ~MergePrefers(s[1], s[2], r[1], r[2])
        /\ \A sent \in delivered, row \in hits : sent[1] = row[1] => ComesAfter(row[2], sent[2])

=============================================================================
