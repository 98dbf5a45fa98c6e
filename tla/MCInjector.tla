----------------------------- MODULE MCInjector -----------------------------
(* Small instances of Injector for TLC. *)
EXTENDS Injector, TLC

ChannelSymmetry == Permutations(Channel)

\* One event of every kind, and more where the argument matters.
SomeEvents == {Down(1), Up(2), MoveTo(2), MoveRel(1), Click("left"), Press("left"),
               Press("right"), Release("right"), Scroll(2), Text, Key({"meta"})}
=============================================================================
