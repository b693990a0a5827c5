---------------------------- MODULE MCCrateAnalysis ----------------------------
(* Small crates for UseDef and CrateAnalysis.                               *)
EXTENDS CrateAnalysis, TLC

L(l) == [local |-> l, field |-> 0]
F(l, field) == [local |-> l, field |-> field]
I(op, dst, src) == [op |-> op, dst |-> dst, src |-> src, to |-> ""]
C(op, dst, src, to) == [op |-> op, dst |-> dst, src |-> src, to |-> to]

Mark(op, dst) == I(op, dst, <<>>)
InTx(s, dst) == <<Mark("lock", dst)>> \o s \o <<Mark("unlock", dst + 1)>>

\* main allocates two objects and copies a pointer to each of x and y.
Prologue(x, y) == <<I("new", 10, <<>>), I("new", 11, <<>>),
                    I("assign", 12, <<L(x)>>), I("assign", 13, <<L(y)>>)>>

\* One instruction of main on a local, in a transaction or not.
OneUse(l, dst) == {I("read", dst, <<L(l)>>), I("write", dst, <<L(l)>>),
                   C("call", dst, <<L(l)>>, "f")}
Segments(l, dst) == {<<i>> : i \in OneUse(l, dst)} \cup {InTx(<<i>>, dst + 1) : i \in OneUse(l, dst)}

CallF(l, dst) == C("call", dst, <<L(l)>>, "f")

\* Not: f called inside a transaction and later outside of any.  The analysis
\* then still takes the second call to be inside (see StaleContext).
Mains ==
  LET Main(y, s, t, bridge) == Prologue(10, y) \o s \o t \o bridge
      \* perhaps one more block, which uses both objects
      Bridges == {<<>>, InTx(<<I("read", 41, <<L(12)>>), I("read", 42, <<L(13)>>)>>, 43)}
  IN {Main(y, s, t, b) : y \in {10, 11}, s \in Segments(12, 20), t \in Segments(13, 30), b \in Bridges}
     \ {Main(y, InTx(<<CallF(12, 20)>>, 21), <<CallF(13, 30)>>, b) : y \in {10, 11}, b \in Bridges}

\* Functions of one argument that borrow it.
Fs == {<<I("assign", 2, <<L(1)>>), I("write", 3, <<L(2)>>)>>,
       <<I("assign", 2, <<L(1)>>)>> \o InTx(<<I("wrap", 5, <<L(2)>>), I("read", 3, <<L(5)>>)>>, 6),
       <<I("assign", 2, <<L(1)>>), I("wrap", 3, <<L(2)>>), Mark("lock", 4), I("read", 5, <<L(3)>>),
         I("write", 6, <<L(2)>>), Mark("unlock", 7)>>}

Direct == {("main" :> m) @@ ("f" :> f) : m \in Mains, f \in Fs}

\* f hands its argument to g; main calls f once, or twice but not inside two
\* different transactions.
ChainF == <<I("assign", 2, <<L(1)>>), C("call", 3, <<L(2)>>, "g")>>
ChainG == <<I("assign", 2, <<L(1)>>), I("write", 3, <<L(2)>>)>>
Chain(m) == ("main" :> m) @@ ("f" :> ChainF) @@ ("g" :> ChainG)

Chains ==
  {Chain(Prologue(10, y) \o InTx(<<CallF(12, 20), i>>, 30)) :
     y \in {10, 11}, i \in {CallF(13, 21), I("read", 21, <<L(13)>>)}}

\* Two objects captured by a closure that runs in a thread of its own.
Closures ==
  {("main" :> Prologue(10, y) \o <<I("closure", 14, <<L(12), L(13)>>), C("spawn", 15, <<L(14)>>, "c")>>
              \o InTx(<<i>>, 30)) @@
   ("c" :> <<I("assign", 2, <<F(1, 1)>>), I("assign", 3, <<F(1, 2)>>), I("copy", 7, <<L(2)>>)>> \o
           InTx(<<I("read", 4, <<L(7)>>), j>>, 8)) :
     y \in {10, 11}, i \in OneUse(10, 20) \ {CallF(10, 20)},
     j \in {I("write", 5, <<L(3)>>), I("read", 5, <<L(3)>>)}}

\* A function of two arguments.
TwoArgs ==
  {("main" :> Prologue(10, y) \o <<C("call", 20, <<L(12), L(13)>>, "f")>>) @@
   ("f" :> <<I("assign", 3, <<L(1)>>), I("assign", 4, <<L(2)>>)>> \o
           InTx(<<I("read", 5, <<L(3)>>), I("write", 6, <<L(4)>>)>>, 7)) : y \in {10, 11}}

\* A copy of a pointer is given to a function of another crate.
NonLocal ==
  {("main" :> Prologue(10, y) \o <<I("assign", 14, <<L(12)>>), C("call", 20, <<L(14)>>, "drop")>> \o
              InTx(<<I("write", 21, <<L(12)>>)>>, 30)) : y \in {10, 11}}

\* f uses an object of its own and its argument in one block: main reports both
\* of them, f the first one alone, in another mode perhaps.
OwnAndArgument ==
  {("main" :> Prologue(10, 11) \o <<CallF(12, 20)>> \o InTx(<<I("read", 21, <<L(12)>>)>>, 30)
              \o InTx(<<I("write", 22, <<L(13)>>)>>, 40)) @@
   ("f" :> <<I("assign", 2, <<L(1)>>), I("new", 3, <<>>)>> \o
           InTx(<<I(i, 4, <<L(2)>>), I(j, 5, <<L(3)>>)>>, 6)) :
     i \in {"read", "write"}, j \in {"read", "write"}}

\* Two functions allocate an object each and give it to f; main only calls them.
Caller(op) == <<I("new", 1, <<>>), I("assign", 2, <<L(1)>>), CallF(2, 3)>> \o
              InTx(<<I(op, 4, <<L(2)>>)>>, 5)
TwoCallers ==
  {("main" :> <<C("call", 1, <<>>, "g"), C("call", 2, <<>>, "h")>>) @@
   ("g" :> Caller("read")) @@ ("h" :> Caller("write")) @@ ("f" :> f) :
     f \in {<<I("assign", 2, <<L(1)>>)>> \o InTx(<<I("read", 3, <<L(2)>>)>>, 6),
            <<I("assign", 2, <<L(1)>>), I("read", 3, <<L(2)>>)>>}}

WellBehaved == NonLocal \cup Direct \cup Chains \cup Closures \cup TwoArgs
               \cup OwnAndArgument \cup TwoCallers

-----------------------------------------------------------------------------
\* f is called in two transactions, with two objects, and calls g.
TwoTransactions ==
  {Chain(Prologue(10, 11) \o InTx(<<CallF(12, 20)>>, 30) \o InTx(<<CallF(13, 21)>>, 40))}

\* f is called inside a transaction and then outside.
StaleContext ==
  {("main" :> Prologue(10, 11) \o InTx(<<CallF(12, 20)>>, 30) \o <<CallF(13, 21)>>) @@
   ("f" :> ChainG)}

\* A function that allocates an object before it borrows its argument, or before
\* it copies it once more; one that copies its argument twice and uses none or one
\* of the copies; a pointer that is moved in a circle; a function that calls itself.
Awkward ==
  {("main" :> Prologue(10, 11) \o <<CallF(12, 20)>>) @@ ("f" :> f) :
     f \in {<<I("new", 4, <<>>), I("assign", 2, <<L(1)>>)>> \o InTx(<<I("read", 3, <<L(2)>>)>>, 5),
            <<I("assign", 2, <<L(1)>>), I("assign", 3, <<L(1)>>)>>,
            <<I("assign", 2, <<L(1)>>), I("assign", 3, <<L(2)>>), I("assign", 2, <<L(3)>>)>>,
            <<I("assign", 2, <<L(1)>>), I("assign", 3, <<L(2)>>), I("assign", 4, <<L(1)>>),
              I("read", 5, <<L(4)>>)>>,
            <<I("assign", 2, <<L(1)>>)>> \o InTx(<<I("read", 3, <<L(2)>>)>>, 6) \o
              <<I("new", 4, <<>>), I("assign", 5, <<L(1)>>)>>,
            <<I("assign", 2, <<L(1)>>), CallF(2, 3)>>}}

\* A closure that copies one of the references it has captured.
FieldCopied ==
  {("main" :> Prologue(10, 11) \o <<I("closure", 14, <<L(12), L(13)>>), C("spawn", 15, <<L(14)>>, "c")>>)
   @@ ("c" :> <<I("copy", 2, <<F(1, 1)>>), I("assign", 3, <<F(1, 2)>>)>> \o
              InTx(<<I("write", 4, <<L(2)>>), I("read", 5, <<L(3)>>)>>, 6))}

\* The end of f is a call that never returns, given the argument or not.
Diverging ==
  {("main" :> Prologue(10, 11) \o InTx(<<I("read", 20, <<L(12)>>)>>, 30) \o <<CallF(13, 22)>>) @@
   ("f" :> <<I("assign", 2, <<L(1)>>)>> \o InTx(<<I("write", 3, <<L(2)>>)>>, 4) \o
           <<C("diverge", 6, args, "exit")>>) : args \in {<<>>, <<L(2)>>}}

\* f is called twice and gives its argument to a function that ignores it, to one
\* of another crate, or to g, which gives it back to f.
HandedOn ==
  {("main" :> Prologue(10, y) \o <<CallF(12, 20), CallF(13, 21)>>) @@ ("f" :> ff) @@ ("g" :> g) :
     y \in {10, 11},
     ff \in {ChainF, <<I("assign", 2, <<L(1)>>), C("call", 3, <<L(2)>>, "drop")>>},
     g \in {<<>>, <<I("assign", 2, <<L(1)>>), CallF(2, 3)>>,
            <<I("assign", 2, <<L(1)>>)>> \o InTx(<<I("write", 3, <<L(2)>>)>>, 4) \o <<CallF(2, 6)>>}}

AnyProgram == WellBehaved \cup TwoTransactions \cup StaleContext \cup Awkward \cup FieldCopied
              \cup Diverging \cup HandedOn
=============================================================================
