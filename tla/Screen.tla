-------------------------------- MODULE Screen -----------------------------
(***************************************************************************)
(* The double buffer of gfx.c: the primitives draw in the back buffer and  *)
(* mark rectangles dirty, gfx_swap copies those to the frame buffer.  Of   *)
(* one pixel, any, it is kept whether the frame buffer lacks what was drawn*)
(* on it.  Colours, glyphs and the round of an arc are left out: a pixel   *)
(* that a primitive may write counts as written.                           *)
(***************************************************************************)
EXTENDS Integers, Sequences, FiniteSetsExt

CONSTANTS
    W, H,               \* g_w, g_h
    MAX_DIRTY_RECT,
    WIDE,               \* 16: from this width rows are copied two pixels at a time
    GLYPH,              \* w and h of a character
    Pixels,             \* the pixels looked at
    Rects               \* what the callers pass, also off the screen

\* What the constants must satisfy.
ScreenAssumption ==
    /\ W \in Nat \ {0} /\ H \in Nat \ {0} /\ MAX_DIRTY_RECT \in Nat \ {0, 1} /\ WIDE \in Nat
    /\ GLYPH \in [w: Nat \ {0}, h: Nat \ {0}]
    /\ Pixels \subseteq [x: Int, y: Int]
    /\ Rects \subseteq [x: Int, y: Int, w: Int, h: Int]

VARIABLE st     \* at, the pixel; stale: drawn on and not copied; dirty: g_dirty

R(x, y, w, h) == [x |-> x, y |-> y, w |-> w, h |-> h]
Screen == R(0, 0, W, H)
In(p, r) == r.x <= p.x /\ p.x < r.x + r.w /\ r.y <= p.y /\ p.y < r.y + r.h
Area(r) == r.w * r.h

Init == \E p \in Pixels : st = [at |-> p, stale |-> FALSE, dirty |-> <<>>]

\* The part of a rectangle that is on the screen; it may be empty.
Clip(r) ==
    LET x == Max({0, r.x}) y == Max({0, r.y})
    IN  R(x, y, Min({r.x + r.w, W}) - x, Min({r.y + r.h, H}) - y)

Hull(a, b) ==
    LET x == Min({a.x, b.x}) y == Min({a.y, b.y})
    IN  R(x, y, Max({a.x + a.w, b.x + b.w}) - x, Max({a.y + a.h, b.y + b.h}) - y)

Touch(a, b) == a.x < b.x + b.w + 1 /\ a.x + a.w + 1 > b.x /\ a.y < b.y + b.h + 1 /\ a.y + a.h + 1 > b.y

\* Two long strips that cross are kept apart while there is room.
Wasteful(dirty, a, b) ==
    /\ Len(dirty) < MAX_DIRTY_RECT
    /\ Area(Hull(a, b)) - Area(a) - Area(b) > Max({Area(a), Area(b)})

\* The pair that makes room, as the loop over the pairs leaves it.  -1 stands for no pair
\* yet, but two that overlap have a negative cost of their own: such a pair is taken and
\* the one after it takes its place, so the choice is the cheapest, the first such, of
\* those behind the last overlapping pair, or the last pair of all.
Before(p, q) == p[1] < q[1] \/ (p[1] = q[1] /\ p[2] < q[2])
MergedPair(dirty) ==
    LET n == Len(dirty)
        pairs == {p \in (1..n) \X (1..n) : p[1] < p[2]}
        cost(p) == Area(Hull(dirty[p[1]], dirty[p[2]])) - Area(dirty[p[1]]) - Area(dirty[p[2]])
        rest == {p \in pairs : \A q \in pairs : cost(q) < 0 => Before(q, p)}
    IN  IF rest = {} THEN <<n - 1, n>>
        ELSE CHOOSE p \in rest : \A q \in rest :
                 cost(p) < cost(q) \/ (cost(p) = cost(q) /\ (p = q \/ Before(p, q)))

gfx_mark_dirty(s, raw) ==
    LET r == Clip(raw)
        near == {i \in DOMAIN s.dirty : Touch(r, s.dirty[i]) /\ ~Wasteful(s.dirty, r, s.dirty[i])}
        pair == MergedPair(s.dirty)
    IN  IF raw.w <= 0 \/ raw.h <= 0 \/ r.w <= 0 \/ r.h <= 0 THEN s
        ELSE IF near # {} THEN [s EXCEPT !.dirty[Min(near)] = Hull(r, @)]
        ELSE IF Len(s.dirty) < MAX_DIRTY_RECT THEN [s EXCEPT !.dirty = Append(@, r)]
        ELSE [s EXCEPT !.dirty[pair[1]] = Hull(@, s.dirty[pair[2]]), !.dirty[pair[2]] = r]

\* Pixels off the screen are not written.
Draw(s, written) == [s EXCEPT !.stale = @ \/ (written /\ In(s.at, Screen))]
MarkAndDraw(s, r, written) == Draw(gfx_mark_dirty(s, r), r.w > 0 /\ r.h > 0 /\ written)

-----------------------------------------------------------------------------
(* The primitives.                                                         *)

\* gfx_fill_rect, and the gradient, the alpha fill, an icon or a part of the desk cache.
gfx_fill_rect(s, r) ==
    LET c == Clip(r) IN IF c.w <= 0 \/ c.h <= 0 THEN s ELSE MarkAndDraw(s, c, In(s.at, c))

gfx_draw_rect(s, r) ==
    LET top == gfx_fill_rect(s, R(r.x, r.y, r.w, 1))
        bottom == gfx_fill_rect(top, R(r.x, r.y + r.h - 1, r.w, 1))
        left == gfx_fill_rect(bottom, R(r.x, r.y, 1, r.h))
    IN  IF r.w <= 0 \/ r.h <= 0 THEN s ELSE gfx_fill_rect(left, R(r.x + r.w - 1, r.y, 1, r.h))

\* From one corner of the rectangle to the opposite one.
gfx_draw_line(s, r) ==
    LET last == Max({r.w, r.h}) - 1
        path[k \in 0..last] ==
            IF k = 0 THEN [x |-> r.x, y |-> r.y, err |-> r.w - r.h]
            ELSE LET p == path[k - 1]
                     right == 2 * p.err > -(r.h - 1)
                     down == 2 * p.err < r.w - 1
                 IN  [x |-> p.x + IF right THEN 1 ELSE 0, y |-> p.y + IF down THEN 1 ELSE 0,
                      err |-> p.err - (IF right THEN r.h - 1 ELSE 0) + IF down THEN r.w - 1 ELSE 0]
    IN  IF r.w <= 0 \/ r.h <= 0 THEN s
        ELSE MarkAndDraw(s, r, \E k \in 0..last : path[k].x = s.at.x /\ path[k].y = s.at.y)

gfx_draw_char(s, x, y) ==
    MarkAndDraw(s, R(x, y, GLYPH.w, GLYPH.h), In(s.at, R(x, y, GLYPH.w, GLYPH.h)))

\* Of two characters.
gfx_draw_text(s, r) == gfx_draw_char(gfx_draw_char(s, r.x, r.y), r.x + GLYPH.w, r.y)

Radius(r, radius) == Min({radius, r.w \div 2, r.h \div 2})

\* The cross of two fills, then the corners.
gfx_fill_round_rect(s, r, radius) ==
    LET k == Radius(r, radius)
        tall == gfx_fill_rect(gfx_mark_dirty(s, r), R(r.x + k, r.y, r.w - 2 * k, r.h))
        cross == gfx_fill_rect(tall, R(r.x, r.y + k, r.w, r.h - 2 * k))
        on(p) == \E cx, cy \in 0..k - 1 :
            /\ (k - 1 - cx) * (k - 1 - cx) + (k - 1 - cy) * (k - 1 - cy) <= k * k
            /\ p.x \in {r.x + cx, r.x + r.w - 1 - cx} /\ p.y \in {r.y + cy, r.y + r.h - 1 - cy}
    IN  IF r.w <= 0 \/ r.h <= 0 THEN s ELSE Draw(cross, on(s.at))

\* Straight sides and arcs; an arc reaches one pixel past the radius.
gfx_draw_round_rect(s, r, radius) ==
    LET k == Radius(r, radius)
        top == gfx_fill_rect(gfx_mark_dirty(s, r), R(r.x + k, r.y, r.w - 2 * k, 1))
        bottom == gfx_fill_rect(top, R(r.x + k, r.y + r.h - 1, r.w - 2 * k, 1))
        left == gfx_fill_rect(bottom, R(r.x, r.y + k, 1, r.h - 2 * k))
        sides == gfx_fill_rect(left, R(r.x + r.w - 1, r.y + k, 1, r.h - 2 * k))
        on(p) == \E cx, cy \in 0..k :
            LET d == (k - cx) * (k - cx) + (k - cy) * (k - cy)
            IN  /\ k * k - k <= d /\ d <= k * k + k
                /\ p.x \in {r.x + cx, r.x + r.w - 1 - cx} /\ p.y \in {r.y + cy, r.y + r.h - 1 - cy}
    IN  IF r.w <= 0 \/ r.h <= 0 THEN s ELSE Draw(sides, on(s.at))

\* Strips right of the rectangle and below it, one pixel further out each time.
gfx_draw_shadow(s, r, depth) ==
    LET drawn[d \in 0..depth] ==
            IF d = 0 THEN s
            ELSE gfx_fill_rect(gfx_fill_rect(drawn[d - 1], R(r.x + r.w + d - 1, r.y + d, 1, r.h)),
                               R(r.x + d, r.y + r.h + d - 1, r.w, 1))
    IN  drawn[depth]

gfx_draw_glow_spot(s, cx, cy, radius) ==
    IF radius <= 0 THEN s
    ELSE MarkAndDraw(s, R(cx - radius, cy - radius, 2 * radius + 1, 2 * radius + 1),
                     (s.at.x - cx) * (s.at.x - cx) + (s.at.y - cy) * (s.at.y - cy) < radius * radius)

\* It marks nothing, and writes one pixel around the character.
gfx_draw_text_glow(s, x, y) == Draw(s, In(s.at, R(x - 1, y - 1, GLYPH.w + 2, GLYPH.h + 2)))

\* Its callers draw it inside a panel they have just filled, as the title bar.
render_window_title(s, r) ==
    IF r.w < GLYPH.w + 2 \/ r.h < GLYPH.h + 2 THEN s
    ELSE gfx_draw_text_glow(gfx_fill_rect(s, r), r.x + 1, r.y + 1)

\* The columns that a copied row of a rectangle reaches.
Copied_Bug(d) == IF d.w >= WIDE THEN R(d.x, d.y, 2 * (d.w \div 2), d.h) ELSE d
Copied(d) ==
    IF d.w < WIDE \/ d.w % 2 = 1 THEN d ELSE R(d.x, d.y, 2 * (d.w \div 2), d.h)

gfx_swap(s) ==
    [s EXCEPT !.stale = @ /\ ~\E i \in DOMAIN s.dirty : In(s.at, Copied(s.dirty[i])), !.dirty = <<>>]

Next ==
    \/ \E r \in Rects : st' \in {gfx_fill_rect(st, r), gfx_draw_rect(st, r), gfx_draw_line(st, r),
                                 gfx_draw_text(st, r), gfx_draw_shadow(st, r, 2),
                                 render_window_title(st, r)}
    \/ \E r \in Rects, k \in 0..2 : st' \in {gfx_fill_round_rect(st, r, k), gfx_draw_round_rect(st, r, k),
                                             gfx_draw_glow_spot(st, r.x, r.y, k)}
    \/ st' = gfx_swap(st)

-----------------------------------------------------------------------------
\* A pixel that the frame buffer lacks is in a dirty rectangle, so the next swap
\* brings it, however the rectangles were clipped, merged, kept apart or given up
\* for room; and a rectangle never leaves the screen, where the copy would.
NothingLost ==
    /\ st.stale => \E i \in DOMAIN st.dirty : In(st.at, st.dirty[i])
    /\ Len(st.dirty) <= MAX_DIRTY_RECT
    /\ \A i \in DOMAIN st.dirty :
         LET d == st.dirty[i]
         IN  d.x >= 0 /\ d.y >= 0 /\ d.w > 0 /\ d.h > 0 /\ d.x + d.w <= W /\ d.y + d.h <= H
=============================================================================
