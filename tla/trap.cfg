\* Three slots; a program leaves one value of its own in each register, which is not
\* the zero it was loaded with, nor what a call returned.
SPECIFICATION Spec
CONSTANTS
    Procs = {p1, p2, p3}
    Idle = Idle
    Gens = {0}
\* The machine stops when there is no process left.
CHECK_DEADLOCK FALSE
SYMMETRY Symmetry
INVARIANTS ProgramGoesOn KernelGoesOn TrapsArrive
