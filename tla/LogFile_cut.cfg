SPECIFICATION Spec
CONSTANTS
  Word <- MCWord
  Output = {"1", "ab"}
  Header = "H"
  Empty = ""
  Number <- MCNumber
  Digits <- MCDigits
  Hash = {"2", "12"}
  Inputs <- MCInputs
  Start <- MCStart
  Final = final
  Temporary = {t1}
INVARIANT NoDependencyIsLost
