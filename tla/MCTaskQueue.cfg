CONSTANTS
  Tasks = {t1, t2, t3}
  Queues = {q1, q2}
  Null = Null
SPECIFICATION Spec
PROPERTIES ImplementsDeque
