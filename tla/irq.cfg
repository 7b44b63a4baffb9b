SPECIFICATION Spec
CONSTANTS
  Thread = {kmain, t2, t3}
  kmain = kmain
  Line = {0, 1, 8}
INVARIANTS OneFrame OwnFlag NoneBlocked
PROPERTIES TickTaken
