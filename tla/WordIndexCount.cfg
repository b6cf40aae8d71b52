SPECIFICATION Spec
CONSTANTS
  apple = apple  pear = pear  doc1 = doc1  doc2 = doc2  t1 = t1  t2 = t2
  Words = {apple, pear}
  Docs = {doc1, doc2}
  Readers = {t1}
  Queries <- MCQueries
  MaxRecords = 3
INVARIANTS CountsUniqueWords
