SPECIFICATION Spec
CONSTANTS
  w1 = w1
  w2 = w2
  m1 = m1
  m2 = m2
  m3 = m3
  None = None
  Writers <- MCWriters
  Messages <- MCMessages
  Size <- MCSize
  MaxSize = 3
  MaxLength = 4
PROPERTIES TrimKeepsLastMessage
