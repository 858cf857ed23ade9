------------------------------ MODULE Paths87 ------------------------------
(***************************************************************************)
(* player_codes/87/player1.cpp, BFSFindPath: a breadth-first search on the *)
(* map, and the way back from its end, whose last letter is on top.        *)
(*                                                                         *)
(* The end (a cooker, a food point) is a wall; it is made free in the      *)
(* program's map during the search.  One search is a behaviour.            *)
(***************************************************************************)
EXTENDS Integers, Sequences, FiniteSets

CONSTANTS Columns, Rows    \* MAPHEIGHT and MAPWIDTH, 50

VARIABLES pc, my, world

Cells == (0 .. Columns - 1) \X (0 .. Rows - 1)
Step == [R |-> <<1, 0>>, L |-> <<-1, 0>>, U |-> <<0, 1>>, D |-> <<0, -1>>]
From(c, l) == <<c[1] + Step[l][1], c[2] + Step[l][2]>>
BackFrom(c, l) == <<c[1] - Step[l][1], c[2] - Step[l][2]>>

\* walls is what GameMap and active_block show; both keep the real walls.
Init ==
  \E real \in SUBSET Cells, start, end \in Cells :
    /\ world = [real |-> real, walls |-> real \ {end}, start |-> start, end |-> end]
    /\ my = [queue |-> <<start>>, visited |-> {start}, last |-> [c \in Cells |-> ""],
             at |-> end, path |-> IF start = end THEN <<"U">> ELSE <<>>]
    /\ pc = IF start = end THEN "done" ELSE "search"

\* The letters of the cells next to c that are new, in the order of the code.
Offer(c, l) ==
  IF From(c, l) \in Cells \ (my.visited \cup world.walls) THEN <<l>> ELSE <<>>
Expand(c) == Offer(c, "R") \o Offer(c, "L") \o Offer(c, "U") \o Offer(c, "D")

\* Mutant of Enqueue: a stack.
EnqueueFirst(queue, cells) == cells \o queue

Enqueue(queue, cells) == queue \o cells

Search ==
  /\ pc = "search"
  /\ UNCHANGED world
  /\ IF my.queue = <<>> \/ Head(my.queue) = world.end
     THEN pc' = "back" /\ UNCHANGED my
     ELSE LET c == Head(my.queue)
              new == Expand(c)
              cells == [i \in DOMAIN new |-> From(c, new[i])]
          IN /\ pc' = pc
             /\ my' = [my EXCEPT
                  !.queue = Enqueue(Tail(@), cells),
                  !.visited = @ \cup {cells[i] : i \in DOMAIN cells},
                  !.last = [d \in Cells |->
                     IF \E i \in DOMAIN new : cells[i] = d
                     THEN new[CHOOSE i \in DOMAIN new : cells[i] = d] ELSE @[d]]]

\* From the end back to the start; a cell without a letter means no path, and
\* then the end stays free in the map.
Back ==
  /\ pc = "back"
  /\ LET l == my.last[my.at] IN
     IF l = ""
     THEN pc' = "done" /\ my' = [my EXCEPT !.path = <<"U">>] /\ UNCHANGED world
     ELSE /\ my' = [my EXCEPT !.path = <<l>> \o @, !.at = BackFrom(@, l)]
          /\ IF my'.at = world.start
             THEN pc' = "done" /\ world' = [world EXCEPT !.walls = world.real]
             ELSE pc' = pc /\ UNCHANGED world

Next == Search \/ Back

-----------------------------------------------------------------------------
\* The cells that n steps lead to in a map, the end taken for free.
Open(w) == Cells \ (w.real \ {w.end})
Near(w, cells) == cells \cup ({From(c, l) : c \in cells, l \in DOMAIN Step} \cap Open(w))
Reached(w) ==
  LET After[n \in 0 .. Cardinality(Cells)] ==
        IF n = 0 THEN {w.start} ELSE Near(w, After[n - 1])
  IN After

Arrives(w, path) ==
  LET Along[n \in 0 .. Len(path)] ==
        IF n = 0 THEN w.start ELSE From(Along[n - 1], path[n])
  IN /\ Along[Len(path)] = w.end
     /\ \A n \in 1 .. Len(path) - 1 : Along[n] \in Cells \ w.real

\* A path that is found is a shortest one and leaves the map as it was; none is
\* found only where there is none, and then the map keeps a wall less.
Shortest(w, path) ==
  IF w.start # w.end /\ w.end \in Reached(w)[Cardinality(Cells)]
  THEN Arrives(w, path) /\ w.end \notin Reached(w)[Len(path) - 1] /\ w.walls = w.real
  ELSE path = <<"U">> /\ w.walls = w.real \ {w.end}
ShortestPath == pc = "done" => Shortest(world, my.path)
=============================================================================
