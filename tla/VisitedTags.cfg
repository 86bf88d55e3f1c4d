SPECIFICATION TagsSpec
CONSTANTS
  MaxTag = 3
  MaxNodes = 3
PROPERTY MarksSpec
