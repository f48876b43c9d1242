------------------------------ MODULE MCArchive ------------------------------
EXTENDS Archive, TLC
File(p, pack, name, content) == [path |-> p, pack |-> pack, name |-> name,
                                 content |-> content]
Packs == {<<"pc", FALSE>>, <<"pc", TRUE>>, <<"npc", FALSE>>}
Indices == {<<>>, <<"pc">>, <<"npc", "pc", "npc">>, <<"pc", "npc">>,
            <<"pc", "npc", "pc">>}
Asked3 == File(1, <<"pc", FALSE>>, "x", 1)
ArchiveOf(files, total, index, answers, wanted, offline) ==
    [pages |-> <<SubSeq(files, 1, 2), SubSeq(files, 3, Len(files))>>,
     total |-> total, index |-> index, answers |-> answers, asked |-> wanted,
     offline |-> offline]
Files(k, l, m, c, d) == <<File(1, k, "x", 1), File(2, l, "x", c),
                          File(3, m, "x", d), File(4, k, "y", 1)>>
Answer(claims, bytes) == [claims |-> claims, bytes |-> bytes]
Honest(files) == [p \in 1 .. 3 |-> Answer(files[p].content, files[p].content)]
OneFiles == Files(<<"pc", FALSE>>, <<"pc", TRUE>>, <<"npc", FALSE>>, 2, 3)
ArchiveChoices ==
    {ArchiveOf(Files(k, l, m, c, d), 4, i,
                 [p \in 1 .. 3 |-> Answer(1, 1)], {}, FALSE) :
       k, l, m \in Packs, c, d \in {1, 2}, i \in Indices}
    \cup {ArchiveOf(OneFiles, n, <<"pc">>, Honest(OneFiles), 1 .. 3,
                       o) :
            n \in {3, 4}, o \in BOOLEAN}
    \cup {ArchiveOf(OneFiles, 4, <<"pc">>,
                      [Honest(OneFiles) EXCEPT ![2] = a], 1 .. 3, FALSE) :
            a \in {Answer(2, 1), Answer(1, 1)}}
CacheChoices == {[p \in 1 .. 3 |-> Absent]} \cup
                {<<1, Absent, 3>>, <<Absent, Partial, Absent>>,
                 <<3, Absent, Absent>>}
=============================================================================
