SPECIFICATION FairSpec
CONSTANTS
  Orientation = "vertical"
  MenuItems <- MCMenuItems
  FieldType <- MCFieldType
  Buttons <- MCButtons
  WindowId = {w1, w2, w3}
  Layouts <- MCLayouts
  MaxWindows = 3
CHECK_DEADLOCK FALSE
INVARIANTS TypeOK FormInSync ButtonsOnlyWhenValid KeysNeedInitialize TopIsOnScreen OneFocus
PROPERTIES LastWindowEndsExec
