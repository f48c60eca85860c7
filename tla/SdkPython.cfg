\* One handler that calls the runtime once, over the Python transport.
CONSTANTS
  Handler = {t1}
  MaxCalls = 1
SPECIFICATION SdkSpec
PROPERTY
  PythonCallsSettle
CHECK_DEADLOCK FALSE
