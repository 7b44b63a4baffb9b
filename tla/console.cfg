SPECIFICATION Spec
CONSTANTS
  COLUMNS = 2
  LINES = 2
  TAB = 2
  Byte = 8
  BufLen = 3
  Printable = {"a"}
  Blank = " "
  t1 = t1
  t2 = t2
  Locker = {t1, t2}
  kmain = kmain
  Message <- MCMessage
  Keys = {"other", "nl"}
INVARIANTS WholeMessages ScreenIsPage SettlesOnScreen
PROPERTIES LockExcludes LockReleased
