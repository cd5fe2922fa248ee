SPECIFICATION Spec
CONSTANTS
  Chats = {c1, c2}
  Workers = 3
  Kept = 1
  FileNames = {f1}
  MaxQueue = 1
  MaxTxt = 3
INVARIANTS TypeOK OneNeverUnheard ListsTakenOnce PictureNotOlder
PROPERTIES MessagesTaken
