SPECIFICATION DemoSpec
CONSTANTS
  Msg = {m1, m2}
  QueueBound = 2
PROPERTY MessagesEndLostRun
