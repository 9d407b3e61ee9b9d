-------------------------------- MODULE Canvas --------------------------------
(* streaming/canvas-streamer.ts: a double-buffered grid drawn by its owner and *)
(* sent as frames, whole or as the difference to the frame before.  screen is  *)
(* what a receiver shows that follows onResize and applies every frame.  A     *)
(* cell holds an ink; style and character are one.                             *)
EXTENDS Integers, Sequences, FiniteSets

CONSTANTS Dimensions,  \* the dimensions <<cols, rows>> the canvas may have
          Inks,        \* what drawing leaves in a cell
          Blank,
          Coordinates, \* positions and lengths callers pass, off the grid too
          Values,      \* values of a chart
          MaxFrames    \* bound: frames taken

VARIABLE canvas

Grid(dims) == (0..(dims[1] - 1)) \X (0..(dims[2] - 1))

Empty(dims) == [cell \in Grid(dims) |-> Blank]

CanvasInit ==
    \E dims \in Dimensions, raw \in BOOLEAN :
        canvas = [dims |-> dims, raw |-> raw, current |-> Empty(dims),
                  previous |-> Empty(dims), screen |-> Empty(dims),
                  frames |-> 0, streaming |-> FALSE]
-----------------------------------------------------------------------------
(* Drawing *)

Least(a, b) == IF a < b THEN a ELSE b

Most(a, b) == IF a < b THEN b ELSE a

\* setCell: what is off the grid is ignored.
SetCells(cells, ink) ==
    canvas' = [canvas EXCEPT !.current =
                  [cell \in DOMAIN @ |-> IF cell \in cells THEN ink ELSE @[cell]]]

TextCells(x, y, length) == {<<x + i, y>> : i \in 0..(length - 1)}

\* The right and the bottom edge are pulled in to the grid, so the box is
\* closed unless it begins off the grid.
BoxCells(x, y, width, height) ==
    LET right  == Least(x + width - 1, canvas.dims[1] - 1)
        bottom == Least(y + height - 1, canvas.dims[2] - 1)
    IN {<<col, row>> : col \in {x, right}, row \in {y, bottom}}
         \cup {<<col, row>> : col \in (x + 1)..(right - 1), row \in {y, bottom}}
         \cup {<<col, row>> : col \in {x, right}, row \in (y + 1)..(bottom - 1)}

\* One block per point, the newest points if not all fit.
SparklineCells(x, y, points, width) ==
    LET shown == Least(points, Least(width, canvas.dims[1] - x))
    IN TextCells(x, y, shown)

\* drawBarChart, drawHistogram: a bar as long as its share of the largest value.
BarLength(value, largest, width) == Most(0, (value * width) \div largest)

BarCells(x, y, values, width) ==
    LET largest == CHOOSE v \in {1} \cup {values[i] : i \in DOMAIN values} :
                       \A i \in DOMAIN values : values[i] <= v
    IN UNION {TextCells(x, y + i - 1, BarLength(values[i], largest, width)) :
              i \in DOMAIN values}

Draw ==
    \E ink \in Inks \cup {Blank}, x, y, a, b \in Coordinates :
        \/ SetCells({<<x, y>>}, ink)
        \/ SetCells(TextCells(x, y, a), ink)
        \/ a >= 2 /\ b >= 2 /\ SetCells(BoxCells(x, y, a, b), ink)
        \/ SetCells(SparklineCells(x, y, a, b), ink)
        \/ \E values \in [1..2 -> Values] : SetCells(BarCells(x, y, values, a), ink)

Clear == canvas' = [canvas EXCEPT !.current = Empty(canvas.dims)]

\* resize() to the size it has does nothing.  The receiver is told (onResize).
Resize ==
    \E dims \in Dimensions :
        /\ dims # canvas.dims
        /\ canvas' = [canvas EXCEPT !.dims = dims, !.current = Empty(dims),
                                    !.previous = Empty(dims), !.screen = Empty(dims)]
-----------------------------------------------------------------------------
(* Frames *)

Changed == {cell \in DOMAIN canvas.current : canvas.current[cell] # canvas.previous[cell]}

Patched(screen) ==
    [cell \in DOMAIN screen |-> IF cell \in Changed THEN canvas.current[cell] ELSE screen[cell]]

\* computeDelta() alone: it counts a frame, and the first snapshot after it is
\* no longer whole.
ComputeDelta ==
    /\ canvas.frames < MaxFrames
    /\ canvas' = [canvas EXCEPT !.frames = @ + 1]

\* A variant: the grid compared with stays the first.
SnapshotOnce(keyframe) ==
    /\ canvas.frames < MaxFrames
    /\ canvas' = [canvas EXCEPT
          !.frames = @ + 1,
          !.screen = IF keyframe \/ canvas.raw \/ canvas.frames = 0
                       THEN canvas.current ELSE Patched(@)]

\* snapshot(): a whole frame if asked for, in raw format and at first, else the
\* cells that changed; then the grid is the one before.
Snapshot(keyframe) ==
    /\ canvas.frames < MaxFrames
    /\ canvas' = [canvas EXCEPT
          !.frames = @ + 1,
          !.previous = canvas.current,
          !.screen = IF keyframe \/ canvas.raw \/ canvas.frames = 0
                       THEN canvas.current ELSE Patched(@)]

StartStreaming ==
    /\ ~canvas.streaming
    /\ canvas' = [canvas EXCEPT !.streaming = TRUE]

StopStreaming == canvas.streaming /\ canvas' = [canvas EXCEPT !.streaming = FALSE]

\* The interval takes a frame.
FrameTimer == canvas.streaming /\ Snapshot(FALSE)

CanvasNext ==
    \/ Draw \/ Clear \/ Resize
    \/ ComputeDelta \/ \E keyframe \in BOOLEAN : Snapshot(keyframe)
    \/ StartStreaming \/ StopStreaming \/ FrameTimer
-----------------------------------------------------------------------------
(* Properties *)

\* The receiver shows what was last sent, whatever mix of whole frames,
\* differences, resizes and extra deltas it got: what it shows and what the
\* streamer compares with are the same grid (snapshot, computeDelta, resize).
ScreenFollows == canvas.screen = canvas.previous

\* A frame leaves the receiver showing the grid.
FrameShowsGrid ==
    canvas'.previous # canvas.previous /\ canvas'.dims = canvas.dims
        => canvas'.screen = canvas.current
=============================================================================
