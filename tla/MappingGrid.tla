---------------------------- MODULE MappingGrid ----------------------------
(***************************************************************************)
(* The correctable map of src/core/mapping.cpp, class Mapping: global      *)
(* grids that are the SUM of keyframe tiles, so that a loop closure can    *)
(* take a tile out at its old pose and put it back at the new one, in      *)
(* grids that grow on any side and shift every cached cell when they do.   *)
(*                                                                         *)
(* World coordinates are whole cells, <<y, x>>; a fan is a sequence of     *)
(* pixels, and headings are quarter turns, so that rounding is exact.      *)
(* Evidence is integral (the code sums float32).                           *)
(***************************************************************************)
EXTENDS Integers, Sequences, FiniteSetsExt, Functions

CONSTANTS
  Fan,        \* sonar_xy: the pixels of a fan, in the sensor frame
  Positions,  \* where keyframes may be
  Headings,   \* their headings, in quarter turns
  MaxTiles,   \* bound on keyframes
  Size0,      \* <<rows, cols>> configure() starts with
  Origin0,    \* <<y0, x0>> at the start
  Inc,        \* inc_r_ = inc_c_: the growth step, in cells
  MinMove     \* min_translation, in cells

Axes   == {1, 2}  \* rows and columns
Layers == {"logodds", "intensity", "counter"}
Pose   == [at : Positions, yaw : Headings]

ASSUME GridAssumption ==
  /\ Fan \in Seq(Int \X Int) \ {<<>>} /\ Positions \subseteq Int \X Int
  /\ Headings \subseteq 0 .. 3
  /\ MaxTiles \in Nat /\ Inc \in Nat \ {0} /\ MinMove \in Nat
  /\ Size0 \in (Nat \ {0}) \X (Nat \ {0}) /\ Origin0 \in Int \X Int

VARIABLES
  size,    \* <<rows_, cols_>>
  origin,  \* <<y0, x0>>
  low,     \* <<rmin_, cmin_>>: the edited box
  high,    \* <<rmax_, cmax_>>
  grid,    \* the three grids: layer -> cell -> sum
  tiles    \* keyframes_: a sequence of [pose, valid, neutral, cells]; cells is
           \* the cached placement (r, c) with its deposits (l, i), neutral
           \* says that the cloud had too few returns and every l is zero

vars == <<size, origin, low, high, grid, tiles>>

Plus(u, v)   == <<u[1] + v[1], u[2] + v[2]>>
Minus(u, v)  == <<u[1] - v[1], u[2] - v[2]>>
Cells(sz)    == (0 .. sz[1] - 1) \X (0 .. sz[2] - 1)
NoCells      == [cell \in {} |-> 0]

Init ==
  /\ size = Size0 /\ origin = Origin0
  /\ low = <<Size0[1] - 1, Size0[2] - 1>> /\ high = <<0, 0>>
  /\ grid = [y \in Layers |-> [cell \in Cells(Size0) |-> 0]]
  /\ tiles = <<>>

----------------------------------------------------------------------------
\* pose_changed: a move below the thresholds is not worth a re-placement.
PoseChanged(p, q) ==
  LET d == Minus(p.at, q.at)
  IN  d[1] * d[1] + d[2] * d[2] > MinMove * MinMove \/ p.yaw # q.yaw

\* A fan pixel, seen from a keyframe at p, in the world.
Turned(v, yaw) == CASE yaw = 0 -> v
                    [] yaw = 1 -> <<v[2], -v[1]>>
                    [] yaw = 2 -> <<-v[1], -v[2]>>
                    [] yaw = 3 -> <<-v[2], v[1]>>
World(p, i) == Plus(p.at, Turned(Fan[i], p.yaw))

\* The deposits of a keyframe's pixel: its evidence, or nothing for a cloud
\* with too few returns.
Deposit(k, i, neutral) ==
  [logodds   |-> IF neutral THEN 0 ELSE IF i % 2 = 0 THEN 10 ^ k ELSE -(10 ^ k),
   intensity |-> i * 10 ^ k,
   counter   |-> 1]

\* adjust_bounds: how many steps the grids grow before index 0, and after
\* the last index, to hold these indices.
Steps(shortfall) == IF shortfall <= 0 THEN 0 ELSE (shortfall + Inc - 1) \div Inc
Before(raw, a) == Steps(-Min({c[a] : c \in raw}))

After(raw, a) == Steps(Max({c[a] : c \in raw}) + 1 - size[a])

\* The grids after a growth: old contents shifted, new cells zero.
Regrown(g, shift, sz) ==
  [y \in Layers |-> [cell \in Cells(sz) |->
     IF Minus(cell, shift) \in DOMAIN g[y] THEN g[y][Minus(cell, shift)] ELSE 0]]

\* Mutant: cached tiles are left where they were in the old grid.
NotShifted(cells, shift) == cells

Shifted(cells, shift) ==
  [cell \in {Plus(c, shift) : c \in DOMAIN cells} |-> cells[Minus(cell, shift)]]

\* inc_grid and dec_grid on the grids.
Deposited(g, cells, sign) ==
  [y \in Layers |-> [cell \in DOMAIN g[y] |->
     IF cell \in DOMAIN cells THEN g[y][cell] + sign * cells[cell][y]
                              ELSE g[y][cell]]]

\* fit_grid then inc_grid for the tile of keyframe k at pose p, into the
\* grids g and beside the cached tiles others: the grids grow first, pixels
\* that fall into one cell deposit the first of them, the box only widens.
Place(k, p, neutral, g, others) ==
  LET raw    == {Minus(World(p, i), origin) : i \in DOMAIN Fan}
      shift  == <<Inc * Before(raw, 1), Inc * Before(raw, 2)>>
      sz     == [a \in Axes |-> size[a] + shift[a] + Inc * After(raw, a)]
      first(c) == Min({i \in DOMAIN Fan :
                         Plus(Minus(World(p, i), origin), shift) = c})
      cells  == [c \in {Plus(r, shift) : r \in raw} |-> Deposit(k, first(c), neutral)]
      tile   == [pose |-> p, valid |-> TRUE, neutral |-> neutral, cells |-> cells]
      moved  == [j \in DOMAIN others |->
                   [others[j] EXCEPT !.cells = Shifted(@, shift)]]
  IN  /\ size' = <<sz[1], sz[2]>>
      /\ origin' = Minus(origin, shift)
      /\ low'  = [a \in Axes |-> Min({low[a] + shift[a]} \cup {c[a] : c \in DOMAIN cells})]
      /\ high' = [a \in Axes |-> Max({high[a] + shift[a]} \cup {c[a] : c \in DOMAIN cells})]
      /\ grid' = Deposited(Regrown(g, shift, sz), cells, 1)
      /\ tiles' = IF k \in DOMAIN others THEN [moved EXCEPT ![k] = tile]
                                         ELSE Append(moved, tile)

----------------------------------------------------------------------------
\* add_keyframe: the node builds in order, so the slot is always the next.
AddKeyframe(p, neutral) ==
  /\ Len(tiles) < MaxTiles
  /\ Place(Len(tiles) + 1, p, neutral, grid, tiles)

\* add_keyframe before any ping gave a fan: a valid tile of nothing.
AddBare(p) ==
  /\ Len(tiles) < MaxTiles /\ \A k \in DOMAIN tiles : tiles[k].cells = NoCells
  /\ tiles' = Append(tiles, [pose |-> p, valid |-> TRUE, neutral |-> TRUE,
                             cells |-> NoCells])
  /\ UNCHANGED <<size, origin, low, high, grid>>

\* add_skipped: an empty slot that no correction touches.
AddSkipped(p) ==
  /\ Len(tiles) < MaxTiles
  /\ tiles' = Append(tiles, [pose |-> p, valid |-> FALSE, neutral |-> TRUE,
                             cells |-> NoCells])
  /\ UNCHANGED <<size, origin, low, high, grid>>

\* Mutant: the tile is not taken out first.
UpdatePoseAddsOnly(k, p) ==
  /\ tiles[k].valid /\ PoseChanged(tiles[k].pose, p)
  /\ IF tiles[k].cells = NoCells
     THEN /\ tiles' = [tiles EXCEPT ![k].pose = p]
          /\ UNCHANGED <<size, origin, low, high, grid>>
     ELSE Place(k, p, tiles[k].neutral, grid, [tiles EXCEPT ![k].cells = NoCells])

\* update_pose: take the tile out where it is, place it at the new pose.
UpdatePose(k, p) ==
  /\ tiles[k].valid /\ PoseChanged(tiles[k].pose, p)
  /\ IF tiles[k].cells = NoCells
     THEN /\ tiles' = [tiles EXCEPT ![k].pose = p]
          /\ UNCHANGED <<size, origin, low, high, grid>>
     ELSE LET out == Deposited(grid, tiles[k].cells, -1)
              emptied == [tiles EXCEPT ![k].cells = NoCells]
          IN  Place(k, p, tiles[k].neutral, out, emptied)

Next == \E p \in Pose :
  \/ \E neutral \in BOOLEAN : AddKeyframe(p, neutral)
  \/ AddBare(p) \/ AddSkipped(p)
  \/ \E k \in DOMAIN tiles : UpdatePose(k, p)

Spec == Init /\ [][Next]_vars

----------------------------------------------------------------------------
(* Properties.                                                             *)

\* What the tiles say of one cell of one layer.
Shares(ts, cell, y) ==
  [k \in {j \in DOMAIN ts : cell \in DOMAIN ts[j].cells} |-> ts[k].cells[cell][y]]

\* The three grids are the sum of the cached tiles (src's mapping.hpp: "The
\* global grids are the SUM of the tiles"), whatever grew, shifted or was
\* re-placed: no tile leaves a residue where it once stood.
GridIsSumOfTiles ==
  \A y \in Layers : \A cell \in Cells(size) :
    grid[y][cell] = SumFunction(Shares(tiles, cell, y))

\* A growth displaces no tile: every placed tile covers the world cells of
\* its fan at its pose, whatever was prepended since it was cached, and the
\* published box shows all of them.
TilesStayPut ==
  \A k \in DOMAIN tiles : tiles[k].cells # NoCells =>
    /\ {Plus(c, origin) : c \in DOMAIN tiles[k].cells} =
          {World(tiles[k].pose, i) : i \in DOMAIN Fan}
    /\ \A c \in DOMAIN tiles[k].cells : \A a \in Axes :
         low[a] <= c[a] /\ c[a] <= high[a]
=============================================================================
