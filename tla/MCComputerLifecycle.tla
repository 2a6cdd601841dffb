------------------------- MODULE MCComputerLifecycle -------------------------
(* Small computers for TLC: a, b and c enter the computer. *)
EXTENDS ComputerLifecycle, TLC
CONSTANTS a, b, c, x, y, r1, r2, s, k

On(team, remote, refs, fences, deaths) ==
  [team |-> team, remote |-> remote, recover |-> FALSE, refs |-> refs,
   fences |-> fences, crashes |-> deaths]
With(computer, kind, run, bot, sleepers, stoppers) ==
  computer @@ [kind |-> kind, run |-> run, bot |-> bot, sleepers |-> sleepers,
               stoppers |-> stoppers]
Each(one, two, three) == (a :> one) @@ (b :> two) @@ (c :> three)

(* Two executions of one run and a replacement by hand: a dedicated        *)
(* computer, with deaths.                                                  *)
Boots == With(On(FALSE, FALSE, {r1, r2}, 0, 2),
              Each("run", "run", "replace"), Each(a, a, c), Each(x, x, x), {}, {})
(* Two bots' runs and an idle sleep: a shared computer of a remote provider. *)
Shared == With(On(TRUE, TRUE, {r1, r2}, 2, 0),
               Each("run", "run", "none"), Each(a, b, c), Each(x, y, x), {s}, {})
(* A run, a boot by hand and a stop request: a shared computer. *)
Stopped == With(On(TRUE, FALSE, {r1}, 1, 0),
                Each("none", "run", "boot"), Each(a, b, c), Each(x, y, x), {}, {k})
(* Two executions of one run and an idle sleep, with deaths. *)
Abandoned == With(On(FALSE, FALSE, {r1}, 0, 2),
                  Each("run", "run", "none"), Each(a, a, c), Each(x, x, x), {s}, {})

(* Two executions of one run on a shared computer, with a death. *)
Died == With(On(TRUE, FALSE, {r1}, 2, 1),
             Each("run", "run", "none"), Each(a, a, c), Each(x, x, x), {}, {})

Races == {Boots, Shared, Stopped, Died}
Alone == {Abandoned}
=============================================================================
