\* main has an array whose length is computed by a const fn of the crate.
SPECIFICATION QuerySpec
CONSTANTS
  Crates <- LengthFromConstFn
INVARIANT
  NoCycle
