----------------------------- MODULE MCServices ----------------------------
\* Small pages, files, heaps, screens, boards and buffers; Brick has the real board.
EXTENDS Services, Sequences, TLC

Load(off, va, fs, ms) == [load |-> TRUE, off |-> off, vaddr |-> va, filesz |-> fs, memsz |-> ms]
Note == [load |-> FALSE, off |-> 0, vaddr |-> 0, filesz |-> 0, memsz |-> 0]
Segments == {Load(off, va, fs, ms) : off \in {2, 9}, va \in {7, 8, 10, 13, 17}, fs \in {0, 6}, ms \in {3, 6, 9}}
\* Sums that wrap: an offset before the buffer, and ends beyond the last address, which
\* leave no page or one to map.
Wrapped == {Load(252, 10, 6, 9), Load(250, 7, 6, 6), Load(2, 250, 0, 9), Load(2, 11, 6, 255), Load(9, 8, 0, 253)}
Image(good, len, phoff, ph) == [good |-> good, len |-> len, phoff |-> phoff, ph |-> ph]
MCImages ==
    {Image(TRUE, 12, 2, <<p, q>>) : p \in Segments \cup {Note}, q \in Segments}
    \cup {Image(TRUE, 12, o, <<p, q>>) : o \in {2, 255}, p \in Wrapped, q \in Wrapped \cup {Load(2, 17, 6, 6), Note}}
    \cup {Image(g, l, o, ph) :
        g \in BOOLEAN, l \in {1, 12}, o \in {0, 2, 10},
        ph \in {<<>>, <<Note>>, <<Note, Note, Note>>}}
MCArgs == {<<>>, <<3, 9>>, <<50, 50>>}

Time(y, m, d, h, mi, s) ==
    [year |-> y, month |-> m, day |-> d, hour |-> h, minute |-> mi, second |-> s]
MCTimes ==
    {Time(y, m, d, h, 59, s) : y \in {1999, 2024, 2025}, m \in {2, 4, 12}, d \in {1, 28},
                               h \in {0, 12, 15, 16, 23}, s \in {58, 59}}
    \cup {Time(2024, 2, 29, 16, 0, 0), Time(2025, 4, 30, 16, 0, 0),
          Time(2025, 12, 31, 23, 59, 59), Time(1999, 12, 31, 18, 0, 58),
          Time(2100, 2, 28, 20, 0, 0)}

MCFrames == <<[y |-> 1, h |-> 1], [y |-> 2, h |-> 2]>>

Rect(x, y, w, h) == [x |-> x, y |-> y, w |-> w, h |-> h]
MCGlyph == [w |-> 1, h |-> 2]
MCPixels == {[x |-> x, y |-> y] : x \in {0, 3}, y \in {0, 2}} \cup {[x |-> 1, y |-> 1]}
MCRects ==
    {Rect(-1, -1, 3, 2), Rect(0, 0, 4, 1), Rect(0, 0, 1, 3), Rect(3, 1, 2, 3), Rect(2, 2, 1, 1),
     Rect(1, 1, 2, 2), Rect(-2, 1, 1, 1), Rect(0, 0, 4, 3), Rect(1, 1, 3, 0), Rect(3, 0, 1, 2)}

\* The loop over the pairs of a full list, one after the other: Screen's choice is its.
Loop(dirty) ==
    LET n == Len(dirty)
        pairs == SetToSortSeq({p \in (1..n) \X (1..n) : p[1] < p[2]}, Screen!Before)
        cost(p) == Screen!Area(Screen!Hull(dirty[p[1]], dirty[p[2]]))
                   - Screen!Area(dirty[p[1]]) - Screen!Area(dirty[p[2]])
        try(best, p) == IF best.cost < 0 \/ cost(p) < best.cost THEN [cost |-> cost(p), pair |-> p] ELSE best
    IN  FoldLeft(try, [cost |-> -1, pair |-> <<1, 2>>], pairs).pair
ASSUME LoopAssumption ==
    \A n \in 2..3 : \A dirty \in [1..n -> {Screen!Clip(r) : r \in MCRects \ {Rect(-2, 1, 1, 1), Rect(1, 1, 3, 0)}}] :
        Screen!MergedPair(dirty) = Loop(dirty)

P(k, n, s) == [k |-> k, n |-> n, s |-> s]
MCFormats ==
    {<<P("lit", 0, <<"a">>), P("d", v, <<>>)>> : v \in {-16, -1, 0, 12}}
    \cup {<<P("s", 0, <<"a", "b">>), P("x", 15, <<>>), P("%", 0, <<>>)>>,
          <<P("null", 0, <<>>), P("u", -1, <<>>), P("end", 0, <<>>)>>,
          <<P("q", 0, <<"q">>), P("c", 0, <<"NUL">>), P("lit", 0, <<"a">>)>>}
MCTexts == {<<>>, <<"a", "b">>}
MCPrompt == <<"#">>
MCPathArgs ==
    UNION {[1 .. n -> {"/", ".", "a"}] : n \in 1 .. 2}
    \cup {<<".", ".", "/", "b">>, <<"a", "b", "/", ".", ".">>, <<"/", "/", "a", "b", "/", "b">>,
          <<"b", "/", ".", ".", "/", ".", ".">>, <<"a", "a", "b">>}
MCFiles ==
    [files |-> 3, name |-> 5, list |-> 12, clean |-> 8, tmp |-> <<"t">>,
     names |-> {<<"t">>, <<"t", "/", "a">>, <<"t", "/", "a", "a">>}]
MCDocTexts ==
    {<<>>, <<"a">>, <<"a", "a", "a", "b">>, <<"a", "b", "a", "b", "a">>,
     <<"a", "NL", "NL", "b">>, <<"#", " ", "a", "NL">>}

MCViewers ==
    [tasks |-> 4, files |-> 3, names |-> {<<"a">>, <<"a", "b">>, <<"b", "/", "a">>},
     queries |-> {<<>>, <<"a">>, <<"b">>, <<"b", "a">>, <<"a", "b">>},
     row |-> 2, data |-> 8, heights |-> {-1, 0, 1, 2, 5}, scrolls |-> 9]

MCSnake == [cols |-> 3, rows |-> 3, body |-> << <<1, 1>>, <<0, 1>> >>, food |-> <<2, 1>>]
MCMines == [n |-> 3, m |-> 2, bombs |-> 2]
MCTetris == [w |-> 4, h |-> 4, x |-> 0,
             shapes |-> {{<<0, 0>>, <<1, 0>>, <<2, 0>>, <<3, 0>>},
                         {<<0, 0>>, <<1, 0>>, <<0, 1>>, <<1, 1>>},
                         {<<1, 0>>, <<2, 0>>, <<0, 1>>, <<1, 1>>}}]
MCPaint == [max |-> 3, canvas |-> {"p", "q"}]
MCTodo == [max |-> 3, vis |-> 2, texts |-> {"", "a", "b"}]
MCTimer == [wrap |-> 5, max |-> 8, work |-> 3, break |-> 2]
MCFields == {"note", "unit", "find", "baseconv", "random", "textstats", "guess", "todo",
             "browser", "translate", "calc", "ide"}
MCQuiz == [side |-> 2, texts |-> << <<TRUE, FALSE, TRUE>>, <<TRUE, FALSE>> >>, high |-> 4, hist |-> 2,
           puzzles |-> << [solution |-> (0 :> 1) @@ (1 :> 2) @@ (2 :> 2) @@ (3 :> 1),
                           fixed |-> {0, 3}],
                          [solution |-> (0 :> 2) @@ (1 :> 1) @@ (2 :> 1) @@ (3 :> 2),
                           fixed |-> {1}] >>]
MCBrick == [cols |-> 9, rows |-> 5, paddles |-> {4, 220, 340, 480}]
MCIde == [depth |-> 2, vars |-> 2, out |-> 2, names |-> {"a", "b", "c"}, values |-> {0, 1},
          nest |-> 4]
MCCalc == [w |-> 6, fix |-> 4, limit |-> 20, literals |-> {0, 1, 2, 4, 6, 8, 13, 31}, ops |-> 2]
MCTools == [word |-> 256, numbers |-> {-5, 0, 3, 7, 100}, units |-> {1, 10, 25},
            digits |-> {<<>>, <<3>>, <<15, 1>>, <<1, 2, 3>>},
            charsets |-> {"a", "B", "symbol"}, lens |-> {3, 4}]
=============================================================================
